---- MODULE Spec2Model ----
(***************************************************************************)
(* Model of the Trade state machine (trading/trade.py), of the simulated   *)
(* exchange (brokers/simulated_broker.py) and of the cached market-data    *)
(* feed (data_feed/data_feed.py).                                          *)
(*                                                                         *)
(* Representation.                                                         *)
(*  - Python None in a numeric or time field is the empty tuple <<>>, a    *)
(*    value v is <<v>>; None in an enum field is the string "None".        *)
(*  - A dict is a function with a string domain; {} is EmptyDict.          *)
(*  - Prices are integers in units of 0.0001, so 1.0 is 10000; money is   *)
(*    in currency units.  The bars and the configuration are chosen so    *)
(*    that every division the code performs is exact.                      *)
(*  - Instants are integers; bars sit at 0..3.                             *)
(*  - An exception is carried in the field exc of an operator's result;    *)
(*    the state changes made before the raise are kept, as in Python.      *)
(*  - Trade objects live in the sequence trades; the broker's collections  *)
(*    hold references (indices into trades).                               *)
(*                                                                         *)
(* Environment.  The broker is driven by a single-threaded client (the     *)
(* strategy collaborator): it builds a fresh Trade, submits it once with   *)
(* execute_trade, and may modify or close live trades.  run_backtest is    *)
(* modelled bar by bar (set-up, one loop iteration per bar, end-of-run     *)
(* block) and the client acts between bars.                                *)
(***************************************************************************)
EXTENDS Integers, Sequences, FiniteSets, TLC

VARIABLES
    trades,            \* every Trade object created so far
    pending_orders,    \* SimulatedBroker.pending_orders   (list of references)
    open_positions,    \* SimulatedBroker.open_positions   (list of references)
    executed_trades,   \* SimulatedBroker.executed_trades  (closed-trade history)
    account_info,      \* SimulatedBroker.account_info
    current_time,      \* SimulatedBroker.current_time
    historical_data,   \* SimulatedBroker.historical_data
    trade_id_counter,  \* SimulatedBroker.trade_id_counter
    is_connected,      \* SimulatedBroker.is_connected
    run,               \* locals of an executing run_backtest
    cache,             \* DataFeed: the cache file of one (symbol, timeframe)
    mt5,               \* the bars the external terminal holds for that series
    last               \* the last call made and how it ended

vars == <<trades, pending_orders, open_positions, executed_trades, account_info,
          current_time, historical_data, trade_id_counter, is_connected, run,
          cache, mt5, last>>

----------------------------------------------------------------------------
(* Bounds *)

\* Trade objects the client creates in Spec
MaxTrades == 1
\* Trade objects the client creates in SpecBook
MaxOrders == 2

----------------------------------------------------------------------------
(* Values *)

None == <<>>
Some(v) == <<v>>
Val(o) == o[1]
EmptyDict == [k \in {} |-> 0]
IsEmpty(d) == DOMAIN d = {}
Get(d, k, default) == IF k \in DOMAIN d THEN d[k] ELSE default

TradeStatus == {"PENDING", "OPEN", "CLOSED", "CANCELLED", "REJECTED"}
TradeDirection == {"BUY", "SELL"}
OrderType == {"MARKET", "LIMIT", "STOP"}
CloseReason == {"TAKE_PROFIT", "STOP_LOSS", "MANUAL", "STRATEGY", "BROKER"}

Max(S) == CHOOSE m \in S : \A e \in S : e <= m
Min(S) == CHOOSE m \in S : \A e \in S : m <= e

----------------------------------------------------------------------------
(* Collaborators: the external feed and the configuration *)

Symbols == {"EURUSD", "GBPUSD", "XAUUSD"}

\* The bars the feed holds, per (symbol, timeframe): timestamp -> close.
\* EURUSD has an hourly bar at 0 and minute bars from 1 on; GBPUSD and XAUUSD
\* have none.
FeedBars ==
    (<<"EURUSD", "M1">> :> (1 :> 10000 @@ 2 :> 10020 @@ 3 :> 9980)) @@
    (<<"EURUSD", "H1">> :> (0 :> 10040 @@ 2 :> 10020))

FeedTimes == UNION {DOMAIN FeedBars[k] : k \in DOMAIN FeedBars}

\* Symbol metadata held by the configuration; XAUUSD is not configured.
symbol_configs ==
    [s \in {"EURUSD", "GBPUSD"} |-> [spread |-> 20, pip_value |-> 1, contract_size |-> 100000]]

\* ConfigManager.get_symbol_config: the metadata of a symbol, None if missing
get_symbol_config(symbol) ==
    IF symbol \in DOMAIN symbol_configs THEN symbol_configs[symbol] ELSE None

\* the account section of the configuration (no explicit entries: defaults apply)
account_config == EmptyDict

\* datetime.datetime.now(): the wall clock of a replay is later than every bar
now == Some(Max(FeedTimes) + 1)

----------------------------------------------------------------------------
(* trading/trade.py *)

\* Trade.__init__
Trade(symbol, direction, stop_loss, take_profit) ==
    [symbol |-> symbol, direction |-> direction,
     stop_loss |-> stop_loss, take_profit |-> take_profit,
     status |-> "PENDING", id |-> None, size |-> None,
     order_type |-> "MARKET", entry_price |-> None,
     open_time |-> None, close_time |-> None,
     executed_price |-> None, close_price |-> None, close_reason |-> "None",
     profit |-> None, commission |-> 0, swap |-> 0,
     rejection_reason |-> "None"]

\* Trade.profit (property getter): _profit, or 0.0 if not set
Trade_profit(t) == IF t.profit # None THEN Val(t.profit) ELSE 0

\* Trade.set_size
set_size(t, size) ==
    IF size = None \/ Val(size) <= 0
    THEN [exc |-> "ValueError", t |-> t]
    ELSE [exc |-> "none", t |-> [t EXCEPT !.size = size]]

\* Trade.set_entry_parameters: order_type is assigned before the check
set_entry_parameters(t, order_type, entry_price) ==
    LET t1 == [t EXCEPT !.order_type = order_type] IN
    IF order_type \in {"LIMIT", "STOP"} /\ entry_price = None
    THEN [exc |-> "ValueError", t |-> t1]
    ELSE [exc |-> "none", t |-> [t1 EXCEPT !.entry_price = entry_price]]

valid_transitions ==
    [s \in TradeStatus |->
        CASE s = "PENDING" -> {"OPEN", "CANCELLED", "REJECTED"}
          [] s = "OPEN" -> {"CLOSED", "CANCELLED"}
          [] OTHER -> {}]

update_status_NoEdgeCheck(t, new_status, kwargs) ==
    IF new_status = "OPEN" /\ "executed_price" \in DOMAIN kwargs
    THEN [exc |-> "none",
          t |-> [t EXCEPT !.executed_price = kwargs["executed_price"],
                          !.open_time = Get(kwargs, "open_time", now),
                          !.status = new_status]]
    ELSE IF new_status = "CLOSED" /\ {"close_price", "profit"} \subseteq DOMAIN kwargs
    THEN [exc |-> "none",
          t |-> [t EXCEPT !.close_price = kwargs["close_price"],
                          !.profit = kwargs["profit"],
                          !.close_time = Get(kwargs, "close_time", now),
                          !.close_reason = Get(kwargs, "close_reason", "MANUAL"),
                          !.status = new_status]]
    ELSE IF new_status \in {"OPEN", "CLOSED"}
    THEN [exc |-> "ValueError", t |-> t]
    ELSE [exc |-> "none", t |-> [t EXCEPT !.status = new_status]]

update_status_AssignBeforeCheck(t, new_status, kwargs) ==
    IF new_status \notin valid_transitions[t.status]
    THEN [exc |-> "ValueError", t |-> t]
    ELSE IF new_status = "CLOSED" /\ "close_price" \in DOMAIN kwargs
                                  /\ "profit" \notin DOMAIN kwargs
    THEN [exc |-> "ValueError",
          t |-> [t EXCEPT !.close_price = kwargs["close_price"]]]
    ELSE update_status_NoEdgeCheck(t, new_status, kwargs)

\* Trade.update_status
update_status(t, new_status, kwargs) ==
    IF new_status \notin valid_transitions[t.status]
    THEN [exc |-> "ValueError", t |-> t]
    ELSE IF new_status = "OPEN"
    THEN IF "executed_price" \notin DOMAIN kwargs
         THEN [exc |-> "ValueError", t |-> t]
         ELSE [exc |-> "none",
               t |-> [t EXCEPT !.executed_price = kwargs["executed_price"],
                               !.open_time = Get(kwargs, "open_time", now),
                               !.status = new_status]]
    ELSE IF new_status = "CLOSED"
    THEN IF "close_price" \notin DOMAIN kwargs
         THEN [exc |-> "ValueError", t |-> t]
         ELSE IF "profit" \notin DOMAIN kwargs
         THEN [exc |-> "ValueError", t |-> t]
         ELSE [exc |-> "none",
               t |-> [t EXCEPT !.close_price = kwargs["close_price"],
                               !.profit = kwargs["profit"],
                               !.close_time = Get(kwargs, "close_time", now),
                               !.close_reason = Get(kwargs, "close_reason", "MANUAL"),
                               !.status = new_status]]
    ELSE IF new_status = "REJECTED"
    THEN [exc |-> "none",
          t |-> [t EXCEPT !.rejection_reason = Get(kwargs, "rejection_reason", "Unknown"),
                          !.status = new_status]]
    ELSE [exc |-> "none", t |-> [t EXCEPT !.status = new_status]]

----------------------------------------------------------------------------
(* brokers/simulated_broker.py: prices *)

\* the price 1.0 in model units (base_price of get_current_price)
base_price == 10000
\* defaults of the configuration look-ups
default_pip_value == 1
default_contract_size == 100000
default_leverage == 100
default_initial_deposit == 10000

\* SimulatedBroker._calculate_spread
_calculate_spread(symbol, price) ==
    LET symbol_config == get_symbol_config(symbol) IN
    IF symbol_config # None /\ "spread" \in DOMAIN symbol_config
    THEN symbol_config["spread"] * Get(symbol_config, "pip_value", default_pip_value)
    ELSE IF symbol_config # None /\ "pip_value" \in DOMAIN symbol_config
    THEN symbol_config["pip_value"] * 10
    ELSE price \div 10000

\* the timeframes get_current_price searches, in this order
timeframe_order == <<"M1", "M5", "M15", "H1", "H4", "D1">>

\* SimulatedBroker.get_current_price, with hd = historical_data and
\* ct = current_time at the moment of the call
get_current_price(hd, ct, symbol) ==
    LET usable == {n \in 1..Len(timeframe_order) :
                      /\ ct # None
                      /\ <<symbol, timeframe_order[n]>> \in DOMAIN hd
                      /\ \E b \in DOMAIN hd[<<symbol, timeframe_order[n]>>] : b <= Val(ct)}
    IN
    IF usable # {}
    THEN LET data == hd[<<symbol, timeframe_order[Min(usable)]>>]
             last_row == Max({b \in DOMAIN data : b <= Val(ct)})
             close_price == data[last_row]
             spread == _calculate_spread(symbol, close_price)
         IN [bid |-> close_price - spread \div 2,
             ask |-> close_price + spread \div 2,
             time |-> ct, spread |-> spread]
    ELSE LET symbol_info == get_symbol_config(symbol) IN
         IF symbol_info = None
         THEN EmptyDict
         ELSE LET spread == _calculate_spread(symbol, base_price) IN
              [bid |-> base_price - spread \div 2,
               ask |-> base_price + spread \div 2,
               time |-> now, spread |-> spread]

----------------------------------------------------------------------------
(* brokers/simulated_broker.py: the book and the ledger.                   *)
(* B is the broker's mutable state threaded through one call:              *)
(* [trades, pending_orders, open_positions, executed_trades, account_info, *)
(*  exc]; once exc is set the rest of the call is skipped.                 *)

\* list.remove: the first occurrence
Remove(seq, x) ==
    LET k == Min({n \in 1..Len(seq) : seq[n] = x}) IN
    SubSeq(seq, 1, k - 1) \o SubSeq(seq, k + 1, Len(seq))

Raise(B, e) == [B EXCEPT !.exc = e]

\* "position.profit = profit": Trade.profit is a property without a setter
SetProfit(B, i, value) ==
    Raise(B, "AttributeError")

\* SimulatedBroker._calculate_position_profit (callers read position.profit)
_calculate_position_profit(B, hd, ct, i, close_price) ==
    LET position == B.trades[i]
        price_data == get_current_price(hd, ct, position.symbol)
    IN
    IF position.executed_price = None THEN B
    ELSE IF close_price = None /\ IsEmpty(price_data) THEN B
    ELSE LET cp == IF close_price # None THEN Val(close_price)
                   ELSE IF position.direction = "BUY" THEN price_data["bid"]
                   ELSE price_data["ask"]
             pip_diff == IF position.direction = "BUY"
                         THEN cp - Val(position.executed_price)
                         ELSE Val(position.executed_price) - cp
             symbol_config == get_symbol_config(position.symbol)
         IN
         IF symbol_config = None THEN Raise(B, "AttributeError")
         ELSE IF position.size = None THEN Raise(B, "TypeError")
         ELSE LET pip_value == Get(symbol_config, "pip_value", default_pip_value)
                  contract_size == Get(symbol_config, "contract_size", default_contract_size)
                  profit == (pip_diff \div pip_value) * Val(position.size) * contract_size
                            - (position.commission + position.swap)
              IN SetProfit(B, i, profit)

\* SimulatedBroker._calculate_position_margin: [exc, ret]
_calculate_position_margin(B, i) ==
    LET position == B.trades[i]
        symbol_config == get_symbol_config(position.symbol)
    IN
    IF position.executed_price = None \/ position.size = None
    THEN [exc |-> "none", ret |-> 0]
    ELSE IF symbol_config = None
    THEN [exc |-> "AttributeError", ret |-> 0]
    ELSE LET contract_size == Get(symbol_config, "contract_size", default_contract_size)
             position_value == Val(position.executed_price) * Val(position.size) * contract_size
             lev == IF B.account_info["leverage"] <= 0 THEN default_leverage
                    ELSE B.account_info["leverage"]
         IN [exc |-> "none", ret |-> position_value \div (lev * base_price)]

RECURSIVE UpdateAccountLoop(_, _, _, _, _, _)
\* the loop of _update_account_info from the k-th open position on
UpdateAccountLoop(B, hd, ct, k, total_profit, total_margin) ==
    IF B.exc # "none" THEN B
    ELSE IF k > Len(B.open_positions)
    THEN LET equity == B.account_info["balance"] + total_profit IN
         [B EXCEPT !.account_info =
            [@ EXCEPT !["profit"] = total_profit,
                      !["margin"] = total_margin,
                      !["equity"] = equity,
                      !["free_margin"] = equity - total_margin]]
    ELSE LET i == B.open_positions[k]
             AfterMargin(B1, m) ==
                 IF m.exc # "none" THEN Raise(B1, m.exc)
                 ELSE UpdateAccountLoop(B1, hd, ct, k + 1,
                                        total_profit + Trade_profit(B1.trades[i]),
                                        total_margin + m.ret)
             AfterProfit(B1) ==
                 IF B1.exc # "none" THEN B1
                 ELSE AfterMargin(B1, _calculate_position_margin(B1, i))
         IN AfterProfit(_calculate_position_profit(B, hd, ct, i, None))

\* SimulatedBroker._update_account_info
_update_account_info(B, hd, ct) ==
    UpdateAccountLoop(B, hd, ct, 1, 0, 0)

----------------------------------------------------------------------------
(* brokers/simulated_broker.py: the two passes of a tick *)

\* the trigger test of _check_pending_orders for one order and one quote:
\* "yes", "no", or "TypeError" when a price is compared with None
Triggered(order, current_price) ==
    IF order.order_type \in {"LIMIT", "STOP"} /\ order.entry_price = None
    THEN "TypeError"
    ELSE IF order.order_type = "LIMIT"
    THEN IF order.direction = "BUY" /\ current_price["ask"] <= Val(order.entry_price)
         THEN "yes"
         ELSE IF order.direction = "SELL" /\ current_price["bid"] >= Val(order.entry_price)
         THEN "yes" ELSE "no"
    ELSE IF order.order_type = "STOP"
    THEN IF order.direction = "BUY" /\ current_price["ask"] >= Val(order.entry_price)
         THEN "yes"
         ELSE IF order.direction = "SELL" /\ current_price["bid"] <= Val(order.entry_price)
         THEN "yes" ELSE "no"
    ELSE "no"

execution_price_AtQuote(order, current_price) ==
    IF order.direction = "BUY" THEN Some(current_price["ask"])
    ELSE Some(current_price["bid"])

\* "execution_price = order.entry_price" in every branch of the trigger test
execution_price(order, current_price) ==
    order.entry_price

ExecuteOrder_KeepPending(B, ct, i, price) ==
    LET order == B.trades[i]
        o1 == [order EXCEPT !.executed_price = price, !.open_time = ct]
        AfterUpdate(r) ==
            IF r.exc # "none" THEN [B EXCEPT !.trades[i] = r.t, !.exc = r.exc]
            ELSE [B EXCEPT !.trades[i] = r.t,
                           !.open_positions = Append(@, i)]
    IN AfterUpdate(update_status(o1, "OPEN",
                                 [executed_price |-> price, open_time |-> ct]))

\* the body of "if executed:" in _check_pending_orders
ExecuteOrder(B, ct, i, price) ==
    LET order == B.trades[i]
        o1 == [order EXCEPT !.executed_price = price, !.open_time = ct]
        AfterUpdate(r) ==
            IF r.exc # "none" THEN [B EXCEPT !.trades[i] = r.t, !.exc = r.exc]
            ELSE [B EXCEPT !.trades[i] = r.t,
                           !.pending_orders = Remove(@, i),
                           !.open_positions = Append(@, i)]
    IN AfterUpdate(update_status(o1, "OPEN",
                                 [executed_price |-> price, open_time |-> ct]))

RECURSIVE PendingLoop(_, _, _, _, _)
\* the loop of _check_pending_orders over the snapshot, from its k-th entry on
PendingLoop(B, hd, ct, snapshot, k) ==
    IF B.exc # "none" \/ k > Len(snapshot) THEN B
    ELSE LET i == snapshot[k]
             Body(current_price, executed) ==
                 IF IsEmpty(current_price) THEN B
                 ELSE IF executed = "TypeError" THEN Raise(B, "TypeError")
                 ELSE IF executed = "yes"
                 THEN ExecuteOrder(B, ct, i,
                                   execution_price(B.trades[i], current_price))
                 ELSE B
             WithPrice(current_price) ==
                 Body(current_price,
                      IF IsEmpty(current_price) THEN "no"
                      ELSE Triggered(B.trades[i], current_price))
         IN PendingLoop(WithPrice(get_current_price(hd, ct, B.trades[i].symbol)),
                        hd, ct, snapshot, k + 1)

\* SimulatedBroker._check_pending_orders
_check_pending_orders(B, hd, ct) ==
    PendingLoop(B, hd, ct, B.pending_orders, 1)

\* SimulatedBroker._close_position; price_info is a dict
_close_position(B, hd, ct, i, price_info, close_reason) ==
    LET position == B.trades[i]
        close_time == IF ct # None THEN ct ELSE now
        cp == IF "price" \in DOMAIN price_info THEN Some(price_info["price"])
              ELSE IF position.direction = "BUY"
              THEN (IF "bid" \in DOMAIN price_info THEN Some(price_info["bid"])
                    ELSE position.executed_price)
              ELSE (IF "ask" \in DOMAIN price_info THEN Some(price_info["ask"])
                    ELSE position.executed_price)
        B1 == [B EXCEPT !.trades[i].close_time = close_time,
                        !.trades[i].close_price = cp]
        AfterUpdate(B2, r) ==
            IF r.exc # "none" THEN [B2 EXCEPT !.trades[i] = r.t, !.exc = r.exc]
            ELSE [B2 EXCEPT !.trades[i] = r.t,
                            !.open_positions = Remove(@, i),
                            !.executed_trades = Append(@, i),
                            !.account_info["balance"] = @ + Trade_profit(r.t)]
        AfterProfit(B2) ==
            IF B2.exc # "none" THEN B2
            ELSE AfterUpdate(B2,
                    update_status(B2.trades[i], "CLOSED",
                        [close_price |-> cp,
                         profit |-> Some(Trade_profit(B2.trades[i])),
                         close_reason |-> close_reason, close_time |-> close_time]))
    IN AfterProfit(_calculate_position_profit(B1, hd, ct, i, cp))

\* the exit test of _check_stop_loss_take_profit for one position and one
\* quote: the level and reason to close with, or reason "None"
ExitHit(position, current_price) ==
    IF /\ position.stop_loss # None
       /\ \/ position.direction = "BUY" /\ current_price["bid"] <= Val(position.stop_loss)
          \/ position.direction = "SELL" /\ current_price["ask"] >= Val(position.stop_loss)
    THEN [reason |-> "STOP_LOSS", price |-> Val(position.stop_loss)]
    ELSE IF /\ position.take_profit # None
            /\ \/ position.direction = "BUY" /\ current_price["bid"] >= Val(position.take_profit)
               \/ position.direction = "SELL" /\ current_price["ask"] <= Val(position.take_profit)
    THEN [reason |-> "TAKE_PROFIT", price |-> Val(position.take_profit)]
    ELSE [reason |-> "None", price |-> 0]

RECURSIVE StopTargetLoop(_, _, _, _, _)
\* the loop of _check_stop_loss_take_profit over the snapshot
StopTargetLoop(B, hd, ct, snapshot, k) ==
    IF B.exc # "none" \/ k > Len(snapshot) THEN B
    ELSE LET i == snapshot[k]
             AfterTest(B1, hit) ==
                 IF hit.reason # "None"
                 THEN _close_position(B1, hd, ct, i, [price |-> hit.price], hit.reason)
                 ELSE B1
             AfterProfit(B1, current_price) ==
                 IF B1.exc # "none" THEN B1
                 ELSE AfterTest(B1, ExitHit(B1.trades[i], current_price))
             WithPrice(current_price) ==
                 IF IsEmpty(current_price) THEN B
                 ELSE AfterProfit(_calculate_position_profit(B, hd, ct, i, None),
                                  current_price)
         IN StopTargetLoop(WithPrice(get_current_price(hd, ct, B.trades[i].symbol)),
                           hd, ct, snapshot, k + 1)

\* SimulatedBroker._check_stop_loss_take_profit
_check_stop_loss_take_profit(B, hd, ct) ==
    StopTargetLoop(B, hd, ct, B.open_positions, 1)

\* the three steps of a tick, in the order of run_backtest and advance_time
Tick(B, hd, ct) ==
    _update_account_info(
        _check_stop_loss_take_profit(
            _check_pending_orders(B, hd, ct), hd, ct), hd, ct)

----------------------------------------------------------------------------
(* brokers/simulated_broker.py: the public operations *)

InvalidSize_OnlyMissing(trade) ==
    trade.size = None

\* "trade.size is None or trade.size <= 0"
InvalidSize(trade) ==
    trade.size = None \/ Val(trade.size) <= 0

\* "self.current_time is None and trade.order_type == OrderType.MARKET"
NotRunning(ct, trade) ==
    ct = None /\ trade.order_type = "MARKET"

\* SimulatedBroker.execute_trade on the trade object i; the result carries
\* the broker state and the id counter
execute_trade(B, hd, ct, counter, i) ==
    LET trade == B.trades[i]
        Rejected(r) == [B EXCEPT !.trades[i] = r.t, !.exc = r.exc]
        Reject(t, reason) ==
            Rejected(update_status(t, "REJECTED", [rejection_reason |-> reason]))
        trade1 == [trade EXCEPT !.id = Some(counter)]
        Opened(r) ==
            IF r.exc # "none" THEN [B EXCEPT !.trades[i] = r.t, !.exc = r.exc]
            ELSE _update_account_info(
                    [B EXCEPT !.trades[i] = r.t, !.open_positions = Append(@, i)],
                    hd, ct)
        Market(current_price, open_time) ==
            IF IsEmpty(current_price)
            THEN Reject(trade1, "Failed to get price")
            ELSE Opened(
                   update_status(
                      [trade1 EXCEPT
                          !.executed_price = IF trade.direction = "BUY"
                                             THEN Some(current_price["ask"])
                                             ELSE Some(current_price["bid"]),
                          !.open_time = open_time],
                      "OPEN",
                      [executed_price |-> IF trade.direction = "BUY"
                                          THEN Some(current_price["ask"])
                                          ELSE Some(current_price["bid"]),
                       open_time |-> open_time]))
    IN
    IF NotRunning(ct, trade)
    THEN [B |-> Reject(trade, "simulation not running"), counter |-> counter]
    ELSE IF InvalidSize(trade)
    THEN [B |-> Reject(trade, "Invalid trade size"), counter |-> counter]
    ELSE IF trade.order_type = "MARKET"
    THEN [B |-> Market(get_current_price(hd, ct, trade.symbol),
                       IF ct # None THEN ct ELSE now),
          counter |-> counter + 1]
    ELSE [B |-> [B EXCEPT !.trades[i] = trade1, !.pending_orders = Append(@, i)],
          counter |-> counter + 1]

\* the reference of the first trade with this id in seq, 0 if there is none
FindById(B, seq, id) ==
    LET hits == {n \in 1..Len(seq) : B.trades[seq[n]].id = id} IN
    IF hits = {} THEN 0 ELSE seq[Min(hits)]

close_trade_CancelInPlace(B, hd, ct, id) ==
    LET close_time == IF ct # None THEN ct ELSE now
        Closed(B2, p, r) ==
            IF r.exc # "none" THEN [B2 EXCEPT !.trades[p] = r.t, !.exc = r.exc]
            ELSE _update_account_info(
                   [B2 EXCEPT !.trades[p] = r.t,
                              !.open_positions = Remove(@, p),
                              !.executed_trades = Append(@, p),
                              !.account_info["balance"] = @ + Trade_profit(r.t)],
                   hd, ct)
        AfterProfit(B2, p, close_price) ==
            IF B2.exc # "none" THEN B2
            ELSE Closed(B2, p,
                    update_status(B2.trades[p], "CLOSED",
                        [close_price |-> close_price,
                         profit |-> Some(Trade_profit(B2.trades[p])),
                         close_reason |-> "MANUAL", close_time |-> close_time]))
        ClosePosition(p, close_price) ==
            AfterProfit(
               _calculate_position_profit(
                  [B EXCEPT !.trades[p].close_price = close_price,
                            !.trades[p].close_time = close_time],
                  hd, ct, p, None),
               p, close_price)
        WithPrice(p, current_price) ==
            IF IsEmpty(current_price) THEN B
            ELSE ClosePosition(p, IF B.trades[p].direction = "BUY"
                                  THEN Some(current_price["bid"])
                                  ELSE Some(current_price["ask"]))
        Cancelled(o, r) ==
            IF r.exc # "none"
            THEN [B EXCEPT !.trades[o] = r.t, !.exc = r.exc]
            ELSE _update_account_info([B EXCEPT !.trades[o] = r.t], hd, ct)
        Found(p, o) ==
            IF p # 0
            THEN WithPrice(p, get_current_price(hd, ct, B.trades[p].symbol))
            ELSE IF o # 0
            THEN Cancelled(o, update_status(B.trades[o], "CANCELLED", EmptyDict))
            ELSE _update_account_info(B, hd, ct)
    IN
    IF id = None THEN B
    ELSE Found(FindById(B, B.open_positions, id), FindById(B, B.pending_orders, id))

\* SimulatedBroker.close_trade for a trade carrying the id
close_trade(B, hd, ct, id) ==
    LET close_time == IF ct # None THEN ct ELSE now
        Closed(B2, p, r) ==
            IF r.exc # "none" THEN [B2 EXCEPT !.trades[p] = r.t, !.exc = r.exc]
            ELSE _update_account_info(
                   [B2 EXCEPT !.trades[p] = r.t,
                              !.open_positions = Remove(@, p),
                              !.executed_trades = Append(@, p),
                              !.account_info["balance"] = @ + Trade_profit(r.t)],
                   hd, ct)
        AfterProfit(B2, p, close_price) ==
            IF B2.exc # "none" THEN B2
            ELSE Closed(B2, p,
                    update_status(B2.trades[p], "CLOSED",
                        [close_price |-> close_price,
                         profit |-> Some(Trade_profit(B2.trades[p])),
                         close_reason |-> "MANUAL", close_time |-> close_time]))
        ClosePosition(p, close_price) ==
            AfterProfit(
               _calculate_position_profit(
                  [B EXCEPT !.trades[p].close_price = close_price,
                            !.trades[p].close_time = close_time],
                  hd, ct, p, None),
               p, close_price)
        WithPrice(p, current_price) ==
            IF IsEmpty(current_price) THEN B
            ELSE ClosePosition(p, IF B.trades[p].direction = "BUY"
                                  THEN Some(current_price["bid"])
                                  ELSE Some(current_price["ask"]))
        Cancelled(o, r) ==
            IF r.exc # "none"
            THEN [B EXCEPT !.pending_orders = Remove(@, o), !.trades[o] = r.t,
                           !.exc = r.exc]
            ELSE _update_account_info(
                   [B EXCEPT !.pending_orders = Remove(@, o), !.trades[o] = r.t],
                   hd, ct)
        Found(p, o) ==
            IF p # 0
            THEN WithPrice(p, get_current_price(hd, ct, B.trades[p].symbol))
            ELSE IF o # 0
            THEN Cancelled(o, update_status(B.trades[o], "CANCELLED", EmptyDict))
            ELSE _update_account_info(B, hd, ct)
    IN
    IF id = None THEN B
    ELSE Found(FindById(B, B.open_positions, id), FindById(B, B.pending_orders, id))

modify_trade_AssignAll(B, trade) ==
    LET Found(p, o) ==
            IF p # 0
            THEN [B EXCEPT !.trades[p].stop_loss = trade.stop_loss,
                           !.trades[p].take_profit = trade.take_profit]
            ELSE IF o # 0
            THEN [B EXCEPT !.trades[o].entry_price = trade.entry_price,
                           !.trades[o].stop_loss = trade.stop_loss,
                           !.trades[o].take_profit = trade.take_profit]
            ELSE B
    IN
    IF trade.id = None THEN B
    ELSE Found(FindById(B, B.open_positions, trade.id),
               FindById(B, B.pending_orders, trade.id))

\* SimulatedBroker.modify_trade for a trade carrying the id and the new values
modify_trade(B, trade) ==
    LET Provided(new, old) == IF new # None THEN new ELSE old
        Found(p, o) ==
            IF p # 0
            THEN [B EXCEPT !.trades[p].stop_loss = Provided(trade.stop_loss, @),
                           !.trades[p].take_profit = Provided(trade.take_profit, @)]
            ELSE IF o # 0
            THEN [B EXCEPT !.trades[o].entry_price = Provided(trade.entry_price, @),
                           !.trades[o].stop_loss = Provided(trade.stop_loss, @),
                           !.trades[o].take_profit = Provided(trade.take_profit, @)]
            ELSE B
    IN
    IF trade.id = None THEN B
    ELSE Found(FindById(B, B.open_positions, trade.id),
               FindById(B, B.pending_orders, trade.id))

RECURSIVE SortedSeq(_)
\* sorted(list(S))
SortedSeq(S) ==
    IF S = {} THEN <<>> ELSE <<Min(S)>> \o SortedSeq(S \ {Min(S)})

\* datetime.datetime.max
datetime_max == Some(Val(now) + 1)

_generate_time_series_NoWindow(hd, start_date, end_date) ==
    SortedSeq(UNION {DOMAIN hd[key] : key \in DOMAIN hd})

\* SimulatedBroker._generate_time_series
_generate_time_series(hd, start_date, end_date) ==
    SortedSeq(UNION {{b \in DOMAIN hd[key] : Val(start_date) <= b /\ b <= Val(end_date)}
                     : key \in DOMAIN hd})

\* the bars the data feed hands to _load_historical_data for a window
FeedRange(symbol, timeframe, start_date, end_date) ==
    IF <<symbol, timeframe>> \notin DOMAIN FeedBars THEN EmptyDict
    ELSE LET bars == FeedBars[<<symbol, timeframe>>]
             T == {b \in DOMAIN bars : Val(start_date) <= b /\ b <= Val(end_date)}
         IN [b \in T |-> bars[b]]

\* SimulatedBroker._load_historical_data: only non-empty series are kept
_load_historical_data(symbols, timeframes, start_date, end_date) ==
    LET keys == {key \in symbols \X timeframes :
                    ~IsEmpty(FeedRange(key[1], key[2], start_date, end_date))}
    IN [key \in keys |-> FeedRange(key[1], key[2], start_date, end_date)]

\* minutes per bar of a timeframe (DataFeed._timeframe_to_seconds)
timeframe_minutes == [tf \in {"M1", "H1"} |-> IF tf = "M1" THEN 1 ELSE 60]

\* DataFeed.fetch_historical_data called without dates: the window ends now
\* and starts bars_count bars before
FeedTail(symbol, timeframe, bars_count) ==
    FeedRange(symbol, timeframe,
              Some(Val(now) - timeframe_minutes[timeframe] * bars_count), now)

\* data[mask].tail(bars_count): the last bars_count bars at or before ct
TailUpTo(data, ct, bars_count) ==
    LET upto == {b \in DOMAIN data : b <= Val(ct)}
        kept == {b \in upto : Cardinality({c \in upto : c > b}) < bars_count}
    IN [b \in kept |-> data[b]]

\* SimulatedBroker.get_historical_data called without dates
get_historical_data(hd, ct, symbol, timeframe, bars_count) ==
    IF /\ <<symbol, timeframe>> \in DOMAIN hd
       /\ ct # None
       /\ \E b \in DOMAIN hd[<<symbol, timeframe>>] : b <= Val(ct)
    THEN TailUpTo(hd[<<symbol, timeframe>>], ct, bars_count)
    ELSE FeedTail(symbol, timeframe, bars_count)

\* the account_info dict built by __init__ and by run_backtest
InitialAccountInfo ==
    LET initial_balance == Get(account_config, "initial_deposit", default_initial_deposit) IN
    [balance |-> initial_balance, equity |-> initial_balance, margin |-> 0,
     free_margin |-> initial_balance, profit |-> 0,
     leverage |-> Get(account_config, "leverage", default_leverage)]

----------------------------------------------------------------------------
(* The client's inputs *)

\* a fresh Trade as the client hands it to execute_trade: constructed, then
\* size, order_type and entry_price assigned
Prepared(symbol, direction, order_type, size, entry_price, stop_loss, take_profit) ==
    [Trade(symbol, direction, stop_loss, take_profit)
        EXCEPT !.size = size, !.order_type = order_type, !.entry_price = entry_price]

\* price levels used by the client, chosen on the quotes of the EURUSD bars
\* (bid/ask 10030/10050, 9990/10010, 10010/10030, 9970/9990 at 0, 1, 2, 3)
EntryLevel == Some(10010)
LowLevel == Some(9990)
HighLevel == Some(10030)

StopLossOf(direction) == IF direction = "BUY" THEN LowLevel ELSE HighLevel
TakeProfitOf(direction) == IF direction = "BUY" THEN HighLevel ELSE LowLevel

TradeInputs ==
    \* well-formed orders on the configured symbol, without and with exits
    {Prepared("EURUSD", d, ot, Some(1),
              IF ot = "MARKET" THEN None ELSE EntryLevel,
              IF x THEN StopLossOf(d) ELSE None,
              IF x THEN TakeProfitOf(d) ELSE None)
        : <<d, ot, x>> \in TradeDirection \X OrderType \X BOOLEAN}
    \cup
    \* missing and non-positive sizes
    {Prepared("EURUSD", "BUY", ot, sz, IF ot = "MARKET" THEN None ELSE EntryLevel,
              None, None)
        : <<ot, sz>> \in {"MARKET", "LIMIT"} \X {None, Some(0)}}
    \cup
    \* LIMIT / STOP without an entry price
    {Prepared("EURUSD", "BUY", "LIMIT", Some(1), None, None, None),
     Prepared("EURUSD", "SELL", "STOP", Some(1), None, None, None)}
    \cup
    \* a symbol with neither bars nor metadata
    {Prepared("XAUUSD", "BUY", "MARKET", Some(1), None, None, None),
     Prepared("XAUUSD", "SELL", "LIMIT", Some(1), EntryLevel, None, None)}

\* the windows run_backtest is called with, and its symbols and timeframes
RunWindows == {<<Some(0), Some(3)>>}
RunSymbols == {"EURUSD", "XAUUSD"}
RunTimeframes == {"M1", "H1"}

----------------------------------------------------------------------------
(* State machine *)

Broker ==
    [trades |-> trades, pending_orders |-> pending_orders,
     open_positions |-> open_positions, executed_trades |-> executed_trades,
     account_info |-> account_info, exc |-> "none"]

Commit(B) ==
    /\ trades' = B.trades
    /\ pending_orders' = B.pending_orders
    /\ open_positions' = B.open_positions
    /\ executed_trades' = B.executed_trades
    /\ account_info' = B.account_info

NoResults ==
    [initial_balance |-> 0, final_balance |-> 0, profit |-> 0,
     trades |-> <<>>, equity_curve |-> <<>>, statistics |-> EmptyDict]

Idle == [phase |-> "idle", time_series |-> <<>>, bar_index |-> 0, results |-> NoResults]

\* the terminal of a broker that is fed from FeedBars
NoTerminal == [bars |-> EmptyDict, updates |-> 0]

\* SimulatedBroker.__init__
Init ==
    /\ trades = <<>>
    /\ pending_orders = <<>>
    /\ open_positions = <<>>
    /\ executed_trades = <<>>
    /\ account_info = InitialAccountInfo
    /\ current_time = None
    /\ historical_data = EmptyDict
    /\ trade_id_counter = 1
    /\ is_connected = FALSE
    /\ run = Idle
    /\ cache = None
    /\ mt5 = NoTerminal
    /\ last = [op |-> "init", arg |-> 0, exc |-> "none"]

\* the client submits a fresh Trade drawn from inputs: execute_trade
ExecuteTradeFrom(inputs, max_trades) ==
    /\ Len(trades) < max_trades
    /\ \E t \in inputs :
          LET i == Len(trades) + 1
              Return(r) ==
                  /\ Commit(r.B)
                  /\ trade_id_counter' = r.counter
                  /\ last' = [op |-> "execute_trade", arg |-> i, exc |-> r.B.exc]
          IN Return(execute_trade([Broker EXCEPT !.trades = Append(@, t)],
                                  historical_data, current_time, trade_id_counter, i))
    /\ is_connected' = TRUE
    /\ UNCHANGED <<current_time, historical_data, run, cache, mt5>>

ExecuteTrade == ExecuteTradeFrom(TradeInputs, MaxTrades)

\* the client closes (or cancels) a trade it submitted: close_trade
CloseTrade ==
    /\ \E i \in 1..Len(trades) :
          LET Return(B) ==
                  /\ Commit(B)
                  /\ last' = [op |-> "close_trade", arg |-> i, exc |-> B.exc]
          IN Return(close_trade(Broker, historical_data, current_time, trades[i].id))
    /\ is_connected' = TRUE
    /\ UNCHANGED <<current_time, historical_data, trade_id_counter, run, cache, mt5>>

\* advance_time, called while the run is in one of the phases
AdvanceTimeIn(phases) ==
    /\ run.phase \in phases
    /\ IF current_time = None
       THEN /\ last' = [op |-> "advance_time", arg |-> 0, exc |-> "none"]
            /\ UNCHANGED <<trades, pending_orders, open_positions, executed_trades,
                           account_info, current_time>>
       ELSE LET time_series == _generate_time_series(historical_data, current_time,
                                                     datetime_max)
            IN IF Len(time_series) > 1
               THEN LET ct == Some(time_series[2])
                        Return(B) ==
                            /\ current_time' = ct
                            /\ Commit(B)
                            /\ last' = [op |-> "advance_time", arg |-> 1,
                                        exc |-> B.exc]
                    IN Return(Tick(Broker, historical_data, ct))
               ELSE /\ last' = [op |-> "advance_time", arg |-> 0, exc |-> "none"]
                    /\ UNCHANGED <<trades, pending_orders, open_positions,
                                   executed_trades, account_info, current_time>>
    /\ UNCHANGED <<historical_data, trade_id_counter, is_connected, run, cache, mt5>>

\* advance_time, called by the client outside run_backtest
AdvanceTime == AdvanceTimeIn({"idle"})

RunBacktestBeginFrom_KeepPositions(windows) ==
    /\ run.phase = "idle"
    /\ \E w \in windows :
          LET start_date == w[1]
              end_date == w[2]
              hd == _load_historical_data(RunSymbols, RunTimeframes, start_date, end_date)
          IN /\ historical_data' = hd
             /\ current_time' = start_date
             /\ run' = [phase |-> "running",
                        time_series |-> _generate_time_series(hd, start_date, end_date),
                        bar_index |-> 1,
                        results |-> [NoResults EXCEPT
                                       !.initial_balance = InitialAccountInfo.balance,
                                       !.final_balance = InitialAccountInfo.balance]]
    /\ open_positions' = open_positions
    /\ pending_orders' = <<>>
    /\ executed_trades' = <<>>
    /\ trade_id_counter' = 1
    /\ account_info' = InitialAccountInfo
    /\ is_connected' = TRUE
    /\ last' = [op |-> "run_backtest_begin", arg |-> 0, exc |-> "none"]
    /\ UNCHANGED <<trades, cache, mt5>>

\* run_backtest up to the loop: load, reset, connect, time series, results
RunBacktestBeginFrom(windows) ==
    /\ run.phase = "idle"
    /\ \E w \in windows :
          LET start_date == w[1]
              end_date == w[2]
              hd == _load_historical_data(RunSymbols, RunTimeframes, start_date, end_date)
          IN /\ historical_data' = hd
             /\ current_time' = start_date
             /\ run' = [phase |-> "running",
                        time_series |-> _generate_time_series(hd, start_date, end_date),
                        bar_index |-> 1,
                        results |-> [NoResults EXCEPT
                                       !.initial_balance = InitialAccountInfo.balance,
                                       !.final_balance = InitialAccountInfo.balance]]
    /\ open_positions' = <<>>
    /\ pending_orders' = <<>>
    /\ executed_trades' = <<>>
    /\ trade_id_counter' = 1
    /\ account_info' = InitialAccountInfo
    /\ is_connected' = TRUE
    /\ last' = [op |-> "run_backtest_begin", arg |-> 0, exc |-> "none"]
    /\ UNCHANGED <<trades, cache, mt5>>

RunBacktestBegin == RunBacktestBeginFrom(RunWindows)

\* one iteration of the loop of run_backtest; an exception leaves run_backtest
RunBacktestBar ==
    /\ run.phase = "running"
    /\ run.bar_index <= Len(run.time_series)
    /\ LET ct == Some(run.time_series[run.bar_index])
           EndOfBar(B) ==
               /\ current_time' = ct
               /\ Commit(B)
               /\ last' = [op |-> "run_backtest_bar", arg |-> run.bar_index,
                           exc |-> B.exc]
               /\ run' = IF B.exc # "none" THEN [run EXCEPT !.phase = "idle"]
                         ELSE [run EXCEPT
                                 !.bar_index = @ + 1,
                                 !.results.equity_curve =
                                    Append(@, [time |-> ct,
                                               equity |-> B.account_info["equity"],
                                               balance |-> B.account_info["balance"]])]
       IN EndOfBar(Tick(Broker, historical_data, ct))
    /\ UNCHANGED <<historical_data, trade_id_counter, is_connected, cache, mt5>>


RECURSIVE CloseRemainingLoop(_, _, _, _, _)
\* run_backtest: "for position in self.open_positions[:]" after the loop
CloseRemainingLoop(B, hd, ct, snapshot, k) ==
    IF B.exc # "none" \/ k > Len(snapshot) THEN B
    ELSE LET i == snapshot[k]
             current_price == get_current_price(hd, ct, B.trades[i].symbol)
         IN CloseRemainingLoop(_close_position(B, hd, ct, i, current_price, "MANUAL"),
                               hd, ct, snapshot, k + 1)

RECURSIVE CancelRemainingLoop(_, _, _)
\* run_backtest: "for order in self.pending_orders[:]" after the loop
CancelRemainingLoop(B, snapshot, k) ==
    IF B.exc # "none" \/ k > Len(snapshot) THEN B
    ELSE LET i == snapshot[k]
             Cancelled(r) ==
                 IF r.exc # "none" THEN Raise(B, r.exc)
                 ELSE [B EXCEPT !.trades[i] = r.t, !.pending_orders = Remove(@, i)]
         IN CancelRemainingLoop(
               Cancelled(update_status(B.trades[i], "CANCELLED", EmptyDict)),
               snapshot, k + 1)

\* SimulatedBroker._calculate_backtest_statistics: [exc, ret].  With a
\* non-empty history the walk reads account_info['initial_deposit'], a key
\* account_info does not have.
_calculate_backtest_statistics(B) ==
    IF B.executed_trades = <<>>
    THEN [exc |-> "none",
          ret |-> [total_trades |-> 0, winning_trades |-> 0, losing_trades |-> 0,
                   total_profit |-> 0, total_loss |-> 0, win_rate |-> 0,
                   profit_factor |-> 0, average_profit |-> 0, average_loss |-> 0,
                   max_drawdown |-> 0, max_drawdown_percentage |-> 0]]
    ELSE [exc |-> "KeyError", ret |-> EmptyDict]

\* run_backtest after the loop: force-close, cancel, results, statistics
RunBacktestEnd ==
    /\ run.phase = "running"
    /\ run.bar_index > Len(run.time_series)
    /\ LET Return(B3, st) ==
               /\ Commit(B3)
               /\ last' = [op |-> "run_backtest_end", arg |-> 0, exc |-> B3.exc]
               /\ run' = IF B3.exc # "none" THEN [run EXCEPT !.phase = "idle"]
                         ELSE [run EXCEPT
                                 !.phase = "idle",
                                 !.results.final_balance = B3.account_info["balance"],
                                 !.results.profit = B3.account_info["balance"]
                                                    - run.results.initial_balance,
                                 !.results.trades = B3.executed_trades,
                                 !.results.statistics = st.ret]
           Statistics(B2, st) ==
               Return(IF B2.exc = "none" /\ st.exc # "none" THEN Raise(B2, st.exc)
                      ELSE B2,
                      st)
           Cancel(B1) == CancelRemainingLoop(B1, B1.pending_orders, 1)
           Finish(B2) == Statistics(B2, _calculate_backtest_statistics(B2))
       IN Finish(Cancel(CloseRemainingLoop(Broker, historical_data, current_time,
                                           open_positions, 1)))
    /\ UNCHANGED <<current_time, historical_data, trade_id_counter, is_connected,
                   cache, mt5>>

Next ==
    \/ ExecuteTrade
    \/ CloseTrade
    \/ AdvanceTime
    \/ RunBacktestBegin
    \/ RunBacktestBar
    \/ RunBacktestEnd

Spec == Init /\ [][Next]_vars

----------------------------------------------------------------------------
(* The book with several orders at once: the same broker, driven with a     *)
(* smaller set of orders so that two of them can share a pass              *)

BookInputs ==
    {Prepared("EURUSD", d, ot, Some(1), EntryLevel, None, None)
        : <<d, ot>> \in TradeDirection \X {"LIMIT", "STOP"}}
    \cup
    {Prepared("EURUSD", "BUY", "LIMIT", Some(1), None, None, None)}
    \cup
    \* a configured symbol the feed has no bars for
    {Prepared("GBPUSD", "BUY", "LIMIT", Some(1), EntryLevel, None, None)}

SubmitOrder == ExecuteTradeFrom(BookInputs, MaxOrders)

NextBook ==
    \/ SubmitOrder
    \/ RunBacktestBegin
    \/ RunBacktestBar
    \/ RunBacktestEnd

SpecBook == Init /\ [][NextBook]_vars

----------------------------------------------------------------------------
(* The Trade object on its own: a client calls its methods directly *)

\* keyword arguments a caller may pass to update_status
KwargSamples ==
    [executed_price |-> Some(10010), close_price |-> Some(10030),
     profit |-> Some(5), close_reason |-> "STRATEGY"]

InitTrade ==
    /\ \E d \in TradeDirection : trades = <<Trade("EURUSD", d, None, None)>>
    /\ pending_orders = <<>>
    /\ open_positions = <<>>
    /\ executed_trades = <<>>
    /\ account_info = InitialAccountInfo
    /\ current_time = None
    /\ historical_data = EmptyDict
    /\ trade_id_counter = 1
    /\ is_connected = FALSE
    /\ run = Idle
    /\ cache = None
    /\ mt5 = NoTerminal
    /\ last = [op |-> "init", arg |-> "None", exc |-> "none", kwargs |-> {}]

BrokerUnchanged ==
    UNCHANGED <<pending_orders, open_positions, executed_trades, account_info,
                current_time, historical_data, trade_id_counter, is_connected, run,
                cache, mt5>>

TradeSetSize ==
    /\ \E size \in {None, Some(0), Some(1), Some(2)} :
          LET r == set_size(trades[1], size)
          IN /\ trades' = <<r.t>>
             /\ last' = [op |-> "set_size", arg |-> "None", exc |-> r.exc, kwargs |-> {}]
    /\ BrokerUnchanged

TradeSetEntryParameters ==
    /\ \E ot \in OrderType, entry_price \in {None, EntryLevel} :
          LET r == set_entry_parameters(trades[1], ot, entry_price)
          IN /\ trades' = <<r.t>>
             /\ last' = [op |-> "set_entry_parameters", arg |-> ot, exc |-> r.exc,
                         kwargs |-> {}]
    /\ BrokerUnchanged

TradeUpdateStatus ==
    /\ \E new_status \in TradeStatus, K \in SUBSET DOMAIN KwargSamples :
          LET r == update_status(trades[1], new_status, [k \in K |-> KwargSamples[k]])
          IN /\ trades' = <<r.t>>
             /\ last' = [op |-> "update_status", arg |-> new_status, exc |-> r.exc,
                         kwargs |-> K]
    /\ BrokerUnchanged

NextTrade ==
    \/ TradeSetSize
    \/ TradeSetEntryParameters
    \/ TradeUpdateStatus

SpecTrade == InitTrade /\ [][NextTrade]_vars

----------------------------------------------------------------------------
(* Properties *)

InSeq(x, seq) == \E n \in 1..Len(seq) : seq[n] = x

TerminalStatuses == {"CLOSED", "CANCELLED", "REJECTED"}

\* the edges of the status machine as the specification lists them
ListedEdges ==
    {<<"PENDING", "OPEN">>, <<"PENDING", "CANCELLED">>, <<"PENDING", "REJECTED">>,
     <<"OPEN", "CLOSED">>, <<"OPEN", "CANCELLED">>}

\* the step is a call of update_status on the Trade of SpecTrade
UpdateStatusStep == last'.op = "update_status"

\* C1: update_status(t) on a trade in status s succeeds only if (s, t) is a
\* listed edge, and then the status is t; for every other pair it fails with
\* an error and the status stays s; a trade in CLOSED, CANCELLED or REJECTED
\* keeps its status in every step.
C1_OnlyListedEdges ==
    [][/\ UpdateStatusStep =>
            LET s == trades[1].status
                t == last'.arg
            IN /\ last'.exc = "none" => <<s, t>> \in ListedEdges /\ trades'[1].status = t
               /\ <<s, t>> \notin ListedEdges =>
                     last'.exc = "ValueError" /\ trades'[1].status = s
       /\ trades[1].status \in TerminalStatuses => trades'[1].status = trades[1].status
      ]_vars

\* a transition was attempted on a terminal trade and refused
C1_Witness ==
    /\ last.op = "update_status"
    /\ last.exc = "ValueError"
    /\ trades[1].status \in TerminalStatuses

\* C2: update_status fails when the pair is not a listed edge, when OPEN is
\* entered without executed_price and when CLOSED is entered without
\* close_price or without profit, and whenever it fails every field of the
\* trade is as before the call.
C2_FailureLeavesTradeUnchanged ==
    [][UpdateStatusStep =>
          LET s == trades[1].status
              t == last'.arg
              K == last'.kwargs
              must_fail == \/ <<s, t>> \notin ListedEdges
                           \/ t = "OPEN" /\ "executed_price" \notin K
                           \/ t = "CLOSED" /\ ("close_price" \notin K \/ "profit" \notin K)
          IN /\ must_fail => last'.exc # "none"
             /\ last'.exc # "none" => trades' = trades
      ]_vars

\* closing an OPEN trade failed because profit was missing although
\* close_price was passed
C2_Witness ==
    /\ last.op = "update_status"
    /\ last.arg = "CLOSED"
    /\ last.exc = "ValueError"
    /\ trades[1].status = "OPEN"
    /\ "close_price" \in last.kwargs
    /\ "profit" \notin last.kwargs
    /\ trades[1].close_price = None

\* the step is a tick: a bar of run_backtest or an advance_time that advanced
TickStep ==
    \/ last'.op = "run_backtest_bar"
    \/ last'.op = "advance_time" /\ last'.arg = 1

\* the trigger rule as the specification states it, for an order and a quote
StatedTrigger(order, quote) ==
    /\ order.entry_price # None
    /\ \/ /\ order.order_type = "LIMIT" /\ order.direction = "BUY"
          /\ quote["ask"] <= Val(order.entry_price)
       \/ /\ order.order_type = "LIMIT" /\ order.direction = "SELL"
          /\ quote["bid"] >= Val(order.entry_price)
       \/ /\ order.order_type = "STOP" /\ order.direction = "BUY"
          /\ quote["ask"] >= Val(order.entry_price)
       \/ /\ order.order_type = "STOP" /\ order.direction = "SELL"
          /\ quote["bid"] <= Val(order.entry_price)

\* C3: in the pending pass of a tick, a pending order whose symbol has a
\* quote is triggered (OPEN, in open_positions) if and only if the stated
\* trigger rule holds at the tick's quote, and otherwise it stays PENDING in
\* pending_orders.
C3_TriggeredIffRule ==
    [][TickStep =>
          \A n \in 1..Len(pending_orders) :
             LET i == pending_orders[n]
                 quote == get_current_price(historical_data, current_time', trades[i].symbol)
             IN ~IsEmpty(quote) =>
                   IF StatedTrigger(trades[i], quote)
                   THEN trades'[i].status = "OPEN" /\ InSeq(i, open_positions')
                   ELSE trades'[i].status = "PENDING" /\ InSeq(i, pending_orders')
      ]_vars

\* C4: an order that a tick takes from PENDING to OPEN has executed_price
\* equal to its entry_price and open_time equal to the tick's time, and in
\* that tick it leaves pending_orders and enters open_positions.
C4_FillAtEntryPrice ==
    [][TickStep =>
          \A i \in 1..Len(trades) :
             trades[i].status = "PENDING" /\ trades'[i].status = "OPEN" =>
                /\ InSeq(i, pending_orders)
                /\ trades'[i].executed_price = trades[i].entry_price
                /\ trades'[i].executed_price # None
                /\ trades'[i].open_time = current_time'
                /\ ~InSeq(i, pending_orders')
                /\ InSeq(i, open_positions')
      ]_vars

\* a LIMIT BUY was filled by the tick at its entry price while the ask that
\* triggered it was strictly lower
C4_Witness ==
    /\ last.op \in {"run_backtest_bar", "advance_time"}
    /\ \E n \in 1..Len(open_positions) :
          LET t == trades[open_positions[n]]
              quote == get_current_price(historical_data, current_time, t.symbol)
          IN /\ t.order_type = "LIMIT" /\ t.direction = "BUY"
             /\ t.status = "OPEN"
             /\ t.open_time = current_time
             /\ t.executed_price = t.entry_price
             /\ quote["ask"] < Val(t.executed_price)


\* the exit rules as the specification states them, for a position and a quote
StatedStopLoss(position, quote) ==
    /\ position.stop_loss # None
    /\ \/ position.direction = "BUY" /\ quote["bid"] <= Val(position.stop_loss)
       \/ position.direction = "SELL" /\ quote["ask"] >= Val(position.stop_loss)

StatedTakeProfit(position, quote) ==
    /\ position.take_profit # None
    /\ \/ position.direction = "BUY" /\ quote["bid"] >= Val(position.take_profit)
       \/ position.direction = "SELL" /\ quote["ask"] <= Val(position.take_profit)

\* the open positions the stop/target pass of this tick starts with: those
\* open before the tick and those its pending pass has just filled
StopTargetPassPositions ==
    _check_pending_orders(Broker, historical_data, current_time').open_positions

\* C5: in the stop/target pass of a tick, an open position whose symbol has a
\* quote is closed with STOP_LOSS at its stop_loss level when the stop rule
\* holds, with TAKE_PROFIT at its take_profit level when the target rule
\* holds, and stays OPEN when neither holds.
C5_ExitAtLevel ==
    [][TickStep =>
          \A n \in 1..Len(StopTargetPassPositions) :
             LET i == StopTargetPassPositions[n]
                 p == trades[i]
                 quote == get_current_price(historical_data, current_time', p.symbol)
             IN ~IsEmpty(quote) =>
                   IF StatedStopLoss(p, quote)
                   THEN /\ trades'[i].status = "CLOSED"
                        /\ trades'[i].close_reason = "STOP_LOSS"
                        /\ trades'[i].close_price = p.stop_loss
                   ELSE IF StatedTakeProfit(p, quote)
                   THEN /\ trades'[i].status = "CLOSED"
                        /\ trades'[i].close_reason = "TAKE_PROFIT"
                        /\ trades'[i].close_price = p.take_profit
                   ELSE trades'[i].status = "OPEN"
      ]_vars

RECURSIVE SumProfit(_, _)
\* the sum of Trade.profit over the trades referenced by seq
SumProfit(ts, seq) ==
    IF seq = <<>> THEN 0
    ELSE Trade_profit(ts[Head(seq)]) + SumProfit(ts, Tail(seq))

\* C6: a tick that detects a stop-loss or take-profit hit finishes without
\* error with the position CLOSED, out of open_positions, in the closed-trade
\* history, and with the realized profit added to balance.
C6_AutomaticCloseCompletes ==
    [][TickStep =>
          \A n \in 1..Len(StopTargetPassPositions) :
             LET i == StopTargetPassPositions[n]
                 p == trades[i]
                 quote == get_current_price(historical_data, current_time', p.symbol)
             IN ~IsEmpty(quote) /\ (StatedStopLoss(p, quote) \/ StatedTakeProfit(p, quote)) =>
                   /\ last'.exc = "none"
                   /\ trades'[i].status = "CLOSED"
                   /\ ~InSeq(i, open_positions')
                   /\ InSeq(i, executed_trades')
                   /\ account_info'["balance"] =
                         account_info["balance"] + SumProfit(trades', executed_trades')
                                                 - SumProfit(trades, executed_trades)
      ]_vars

\* C7: a pending order that a bar of run_backtest triggers and whose stop or
\* target rule holds at that bar's quote is opened and closed within the bar,
\* and the equity sample recorded for the bar carries the balance after that
\* close.
C7_OpenedAndClosedWithinTick ==
    [][last'.op = "run_backtest_bar" =>
          \A n \in 1..Len(pending_orders) :
             LET i == pending_orders[n]
                 o == trades[i]
                 quote == get_current_price(historical_data, current_time', o.symbol)
                 curve == run'.results.equity_curve
             IN (/\ ~IsEmpty(quote)
                 /\ StatedTrigger(o, quote)
                 /\ StatedStopLoss(o, quote) \/ StatedTakeProfit(o, quote))
                => /\ trades'[i].status = "CLOSED"
                   /\ trades'[i].open_time = current_time'
                   /\ trades'[i].close_time = current_time'
                   /\ Len(curve) = Len(run.results.equity_curve) + 1
                   /\ curve[Len(curve)].time = current_time'
                   /\ curve[Len(curve)].balance =
                         account_info["balance"] + Trade_profit(trades'[i])
      ]_vars

\* the price a position is marked at: bid for BUY, ask for SELL
MarkPrice(position, quote) ==
    IF position.direction = "BUY" THEN Some(quote["bid"]) ELSE Some(quote["ask"])

\* C8: when run_backtest returns, pending_orders and open_positions are empty,
\* every position that was open after the last bar is in the closed-trade
\* history, CLOSED with reason MANUAL at the last available price, and every
\* order that was pending is CANCELLED and not in the history.
C8_EndOfRunEmptiesBook ==
    [][last'.op = "run_backtest_end" =>
          /\ last'.exc = "none"
          /\ pending_orders' = <<>>
          /\ open_positions' = <<>>
          /\ \A n \in 1..Len(open_positions) :
                LET i == open_positions[n]
                    quote == get_current_price(historical_data, current_time,
                                               trades[i].symbol)
                IN /\ InSeq(i, executed_trades')
                   /\ trades'[i].status = "CLOSED"
                   /\ trades'[i].close_reason = "MANUAL"
                   /\ (~IsEmpty(quote) =>
                          trades'[i].close_price = MarkPrice(trades[i], quote))
          /\ \A n \in 1..Len(pending_orders) :
                LET i == pending_orders[n]
                IN trades'[i].status = "CANCELLED" /\ ~InSeq(i, executed_trades')
      ]_vars

\* the trade the last execute_trade was called with
Submitted == trades[last.arg]

InBook(i) == InSeq(i, pending_orders) \/ InSeq(i, open_positions)

\* C9 as stated: execute_trade rejects the trade and adds it to neither
\* collection whenever its size is missing or <= 0 or no simulation time is
\* set, whatever the order type.
C9_RejectsWhenNotRunning ==
    /\ last.op = "execute_trade"
    /\ Submitted.size = None \/ Val(Submitted.size) <= 0 \/ current_time = None
    => Submitted.status = "REJECTED" /\ ~InBook(last.arg)

\* C9 amended: execute_trade rejects a fresh trade and adds it to neither
\* collection whenever its size is missing or <= 0, whatever the order type,
\* or it is a MARKET order and no simulation time is set; a LIMIT or STOP
\* order with a positive size submitted while no simulation time is set is
\* accepted: it is PENDING in pending_orders.
C9_RejectsInvalidSizeOrIdleMarket ==
    last.op = "execute_trade" =>
       /\ (\/ Submitted.size = None
           \/ Val(Submitted.size) <= 0
           \/ current_time = None /\ Submitted.order_type = "MARKET")
          => (Submitted.status = "REJECTED" /\ ~InBook(last.arg))
       /\ (/\ current_time = None
           /\ Submitted.order_type \in {"LIMIT", "STOP"}
           /\ Submitted.size # None
           /\ Val(Submitted.size) > 0)
          => (Submitted.status = "PENDING" /\ InSeq(last.arg, pending_orders))

\* a LIMIT order of size 0 was rejected while the simulation was running
C9_Witness ==
    /\ last.op = "execute_trade"
    /\ current_time # None
    /\ Submitted.order_type = "LIMIT"
    /\ Submitted.size = Some(0)
    /\ Submitted.status = "REJECTED"
    /\ ~InBook(last.arg)

\* C10: for a MARKET order with positive size submitted while the simulation
\* runs, execute_trade returns normally with the trade OPEN at the current ask
\* (BUY) or bid (SELL), open_time the current time, and the trade in
\* open_positions, if a price is available; otherwise the trade is REJECTED
\* and not added.
C10_MarketOrderExecutes ==
    last.op = "execute_trade" =>
       LET quote == get_current_price(historical_data, current_time, Submitted.symbol)
       IN (/\ Submitted.order_type = "MARKET"
           /\ Submitted.size # None
           /\ Val(Submitted.size) > 0
           /\ current_time # None)
          => IF IsEmpty(quote)
             THEN Submitted.status = "REJECTED" /\ ~InBook(last.arg)
             ELSE /\ last.exc = "none"
                  /\ Submitted.status = "OPEN"
                  /\ Submitted.executed_price =
                        (IF Submitted.direction = "BUY" THEN Some(quote["ask"])
                         ELSE Some(quote["bid"]))
                  /\ Submitted.open_time = current_time
                  /\ InSeq(last.arg, open_positions)


\* C11: a LIMIT or STOP order is in pending_orders only with a non-null
\* entry_price (so that no later pass compares a quote with a null price).
C11_PendingOrdersHaveEntryPrice ==
    \A n \in 1..Len(pending_orders) :
       trades[pending_orders[n]].entry_price # None

\* the step is a close_trade call on a position that is open and has a quote
CloseOpenPositionStep ==
    /\ last'.op = "close_trade"
    /\ InSeq(last'.arg, open_positions)
    /\ ~IsEmpty(get_current_price(historical_data, current_time,
                                  trades[last'.arg].symbol))

\* C12: in every state balance is the initial deposit plus the sum of profit
\* over the closed-trade history, and a close adds the position's realized
\* profit to balance once: the position enters the history and balance grows
\* by its profit.
C12_BalanceIsDepositPlusRealized ==
    [][/\ account_info'["balance"] =
             InitialAccountInfo["balance"] + SumProfit(trades', executed_trades')
       /\ CloseOpenPositionStep =>
             /\ InSeq(last'.arg, executed_trades')
             /\ trades'[last'.arg].status = "CLOSED"
             /\ account_info'["balance"] =
                   account_info["balance"] + Trade_profit(trades'[last'.arg])
      ]_vars

RECURSIVE SumMargin(_)
\* the sum of the required margin over the positions referenced by seq
SumMargin(seq) ==
    IF seq = <<>> THEN 0
    ELSE _calculate_position_margin(Broker, Head(seq)).ret + SumMargin(Tail(seq))

\* C13: at the end of every tick the ledger is the recompute's result:
\* profit is the sum of profit of the open positions, margin the sum of their
\* required margin, equity = balance + profit, free_margin = equity - margin.
C13_LedgerAfterTick ==
    (last.op = "run_backtest_bar" \/ (last.op = "advance_time" /\ last.arg = 1)) =>
       /\ account_info["profit"] = SumProfit(trades, open_positions)
       /\ account_info["margin"] = SumMargin(open_positions)
       /\ account_info["equity"] = account_info["balance"] + account_info["profit"]
       /\ account_info["free_margin"] = account_info["equity"] - account_info["margin"]


----------------------------------------------------------------------------
(* data_feed/data_feed.py.  A DataFrame is [index_name, rows]: the name of  *)
(* its index and its rows <<timestamp, close>> in frame order.  Instants    *)
(* are integers counting minutes.  The cache file of the series is None     *)
(* (no file) or <<[time_column, rows]>>: the header of the column that      *)
(* holds the index, and the rows written.                                   *)

\* pd.DataFrame()
EmptyFrame == [index_name |-> "None", rows |-> <<>>]

\* the set of index values of a frame (index.isin, index.max)
Index(df) == {df.rows[n][1] : n \in 1..Len(df.rows)}

\* "datetime.timedelta(minutes=10)": the overlap of a delta request
overlap_minutes == 10

\* mt5.copy_rates_range: the terminal's bars in [start_date, end_date],
\* ascending and unique
copy_rates_range(terminal, start_date, end_date) ==
    LET ts == SortedSeq({t \in DOMAIN terminal.bars :
                            start_date <= t /\ t <= end_date})
    IN [n \in 1..Len(ts) |-> <<ts[n], terminal.bars[ts[n]]>>]

\* DataFeed._fetch_mt5_data by date range: the index is named 'time'
_fetch_mt5_data(terminal, start_date, end_date) ==
    LET rates == copy_rates_range(terminal, start_date, end_date) IN
    IF Len(rates) = 0 THEN EmptyFrame
    ELSE [index_name |-> "time", rows |-> rates]

\* DataFeed._save_to_cache: reset_index turns the index into a column named
\* after it ('index' for an unnamed index); only 'time' is renamed
_save_to_cache(data) ==
    LET column == IF data.index_name = "None" THEN "index" ELSE data.index_name
    IN Some([time_column |-> IF column = "time" THEN "timestamp" ELSE column,
             rows |-> data.rows])

\* DataFeed._get_cached_data: None without a file and when read_csv fails
\* because the file has no 'timestamp' column
_get_cached_data(file) ==
    IF file = None THEN None
    ELSE IF Val(file).time_column # "timestamp" THEN None
    ELSE Some([index_name |-> "timestamp", rows |-> Val(file).rows])

\* pd.concat([a, b]): the index keeps its name only if both names agree
concat(a, b) ==
    [index_name |-> IF a.index_name = b.index_name THEN a.index_name ELSE "None",
     rows |-> a.rows \o b.rows]

RECURSIVE SortRows(_)
\* rows ordered by timestamp
SortRows(rows) ==
    IF rows = <<>> THEN <<>>
    ELSE LET m == Min({rows[n][1] : n \in 1..Len(rows)})
             k == Min({n \in 1..Len(rows) : rows[n][1] = m})
         IN <<rows[k]>> \o SortRows(SubSeq(rows, 1, k - 1) \o
                                    SubSeq(rows, k + 1, Len(rows)))

\* DataFrame.sort_index
sort_index(df) == [df EXCEPT !.rows = SortRows(@)]

\* df[(df.index >= start_date) & (df.index <= end_date)]
Slice(df, start_date, end_date) ==
    LET InWindow(r) == start_date <= r[1] /\ r[1] <= end_date
    IN [df EXCEPT !.rows = SelectSeq(@, InWindow)]

DropCached_Nothing(missing_data, cached_data) ==
    missing_data

\* "missing_data[~missing_data.index.isin(cached_data.index)]"
DropCached(missing_data, cached_data) ==
    LET Fresh(r) == r[1] \notin Index(cached_data)
    IN [missing_data EXCEPT !.rows = SelectSeq(@, Fresh)]

\* DataFeed.fetch_historical_data with both dates given: the frame returned,
\* the cache file afterwards and the requests sent to the terminal
fetch_historical_data(file, terminal, start_date, end_date) ==
    LET NoCache(data) ==
            IF data.rows # <<>>
            THEN [ret |-> data, cache |-> _save_to_cache(data),
                  requests |-> << <<start_date, end_date>> >>]
            ELSE [ret |-> EmptyFrame, cache |-> file,
                  requests |-> << <<start_date, end_date>> >>]
        Sufficient(cached_data, requests) ==
            [ret |-> Slice(cached_data, start_date, end_date), cache |-> file,
             requests |-> requests]
        Merged(updated_data, requests) ==
            [ret |-> Slice(updated_data, start_date, end_date),
             cache |-> _save_to_cache(updated_data), requests |-> requests]
        Delta(cached_data, missing_data, requests) ==
            IF missing_data.rows # <<>>
            THEN Merged(sort_index(concat(cached_data,
                                          DropCached(missing_data, cached_data))),
                        requests)
            ELSE Sufficient(cached_data, requests)
        Behind(cached_data, new_start_date) ==
            Delta(cached_data, _fetch_mt5_data(terminal, new_start_date, end_date),
                  << <<new_start_date, end_date>> >>)
        WithCache(cached_data) ==
            IF cached_data = None
            THEN NoCache(_fetch_mt5_data(terminal, start_date, end_date))
            ELSE IF Val(cached_data).rows = <<>>
            THEN NoCache(_fetch_mt5_data(terminal, start_date, end_date))
            ELSE IF end_date > Max(Index(Val(cached_data)))
            THEN Behind(Val(cached_data),
                        Max(Index(Val(cached_data))) - overlap_minutes)
            ELSE Sufficient(Val(cached_data), <<>>)
    IN WithCache(_get_cached_data(file))


----------------------------------------------------------------------------
(* The data feed of one (symbol, timeframe) series against an MT5 terminal  *)
(* whose history grows and is revised between fetches.                      *)

\* the number of changes of the terminal's history in a behaviour
MaxFeedUpdates == 2

\* the instants at which the terminal can hold a bar, and the closes of a bar
BarGrid == {0, 5, 10, 15, 20}
BarValues == {1, 2}

\* the windows [start_date, end_date] a client asks for
FetchWindows == {0, 5} \X {10, 15, 20}

\* the terminal's history before the first fetch
InitialTerminal == [bars |-> (0 :> 1) @@ (5 :> 1) @@ (10 :> 1), updates |-> 0]

InitFeed ==
    /\ trades = <<>>
    /\ pending_orders = <<>>
    /\ open_positions = <<>>
    /\ executed_trades = <<>>
    /\ account_info = InitialAccountInfo
    /\ current_time = None
    /\ historical_data = EmptyDict
    /\ trade_id_counter = 1
    /\ is_connected = FALSE
    /\ run = Idle
    /\ cache = None
    /\ mt5 = InitialTerminal
    /\ last = [op |-> "init", arg |-> <<0, 0>>, exc |-> "none",
               ret |-> EmptyFrame, requests |-> <<>>]

BrokerIdle ==
    UNCHANGED <<trades, pending_orders, open_positions, executed_trades,
                account_info, current_time, historical_data, trade_id_counter,
                is_connected, run>>

\* a client calls fetch_historical_data(symbol, timeframe, None, start, end)
FetchHistoricalData ==
    /\ \E window \in FetchWindows :
          LET Return(r) ==
                  /\ cache' = r.cache
                  /\ last' = [op |-> "fetch_historical_data", arg |-> window,
                              exc |-> "none", ret |-> r.ret,
                              requests |-> r.requests]
          IN Return(fetch_historical_data(cache, mt5, window[1], window[2]))
    /\ UNCHANGED mt5
    /\ BrokerIdle

\* the terminal receives a new bar or revises the close of one it holds
TerminalUpdate ==
    /\ mt5.updates < MaxFeedUpdates
    /\ \E t \in BarGrid, v \in BarValues :
          /\ t \in DOMAIN mt5.bars => mt5.bars[t] # v
          /\ mt5' = [bars |-> (t :> v) @@ mt5.bars, updates |-> mt5.updates + 1]
          /\ last' = [op |-> "terminal_update", arg |-> <<t, v>>, exc |-> "none",
                      ret |-> EmptyFrame, requests |-> <<>>]
    /\ UNCHANGED cache
    /\ BrokerIdle

NextFeed == FetchHistoricalData \/ TerminalUpdate

SpecFeed == InitFeed /\ [][NextFeed]_vars


----------------------------------------------------------------------------
(* Properties of the data feed *)

\* the timestamps of the rows are strictly increasing, hence unique
StrictlyIncreasing(rows) ==
    \A n \in 1..Len(rows) - 1 : rows[n][1] < rows[n + 1][1]

\* the step is a fetch that found a readable, non-empty cache file
FetchWithCacheStep ==
    /\ last'.op = "fetch_historical_data"
    /\ _get_cached_data(cache) # None
    /\ Val(cache).rows # <<>>

\* the step is a fetch that merged a non-empty response into the cache
DeltaMergeStep ==
    /\ FetchWithCacheStep
    /\ last'.requests # <<>>
    /\ _fetch_mt5_data(mt5, last'.requests[1][1], last'.requests[1][2]).rows # <<>>

\* C14: every frame fetch_historical_data returns and every series it writes
\* to the cache file has strictly increasing timestamps without duplicates,
\* whether there was no cache, a delta merge or a cache hit.
C14_TimestampsStrictlyIncreasing ==
    /\ cache # None => StrictlyIncreasing(Val(cache).rows)
    /\ last.op = "fetch_historical_data" => StrictlyIncreasing(last.ret.rows)

\* a delta merge whose response overlapped the cache and brought a new bar
C14_Witness ==
    /\ last.op = "fetch_historical_data"
    /\ cache # None
    /\ Val(cache).time_column = "index"
    /\ last.requests # <<>>
    /\ Len(Val(cache).rows) = 4
    /\ last.requests[1][1] \in Index(Val(cache))
    /\ Len(last.ret.rows) < Len(Val(cache).rows)


\* the rows of a frame or a file as a set
RowSet(rows) == {rows[n] : n \in 1..Len(rows)}

\* the timestamps held by the cache file
StoreIndex(file) == {Val(file).rows[n][1] : n \in 1..Len(Val(file).rows)}

\* C15: a fetch that repeats the window of the fetch just before it, with no
\* change of the terminal between them, leaves the cache file with the
\* content the first call left and returns the same bars.
C15_FetchIsIdempotent ==
    [][(/\ last.op = "fetch_historical_data"
        /\ last'.op = "fetch_historical_data"
        /\ last'.arg = last.arg)
       => (/\ cache' = cache
           /\ last'.ret.rows = last.ret.rows)]_vars

\* C16: a delta merge holds, for every timestamp of the response that was
\* already cached, the bar of the response in the file and in the frame
\* returned, not the cached bar.
C16_FreshBarWins ==
    [][DeltaMergeStep =>
          \A r \in RowSet(_fetch_mt5_data(mt5, last'.requests[1][1],
                                          last'.requests[1][2]).rows) :
              r[1] \in StoreIndex(cache) =>
                 /\ r \in RowSet(Val(cache').rows)
                 /\ (last'.arg[1] <= r[1] /\ r[1] <= last'.arg[2])
                       => r \in RowSet(last'.ret.rows)]_vars

\* C17: with a non-empty series in the cache file, a fetch sends no request
\* to the terminal when the series reaches the requested end, and otherwise
\* sends exactly one, from 10 minutes before the latest cached timestamp to
\* the requested end; it never fetches again from the start of the window.
C17_OnlyTheDeltaIsRequested ==
    [][(/\ last'.op = "fetch_historical_data"
        /\ cache # None
        /\ StoreIndex(cache) # {})
       => IF last'.arg[2] <= Max(StoreIndex(cache))
          THEN last'.requests = <<>>
          ELSE last'.requests = << <<Max(StoreIndex(cache)) - overlap_minutes,
                                     last'.arg[2]>> >>]_vars

\* C18: after a fetch the cache file holds every timestamp it held before,
\* after a delta merge also every bar newly fetched, and the next fetch can
\* read the file back.
C18_StoreKeepsFullSeries ==
    [][(last'.op = "fetch_historical_data" /\ cache # None)
       => (/\ cache' # None
           /\ StoreIndex(cache) \subseteq StoreIndex(cache')
           /\ _get_cached_data(cache') # None
           /\ DeltaMergeStep =>
                 \A r \in RowSet(_fetch_mt5_data(mt5, last'.requests[1][1],
                                                 last'.requests[1][2]).rows) :
                     r[1] \in StoreIndex(cache'))]_vars


----------------------------------------------------------------------------
(* Properties of the broker's clock *)

\* the instants that occur in any loaded series
LoadedInstants == UNION {DOMAIN historical_data[key] : key \in DOMAIN historical_data}

\* the instants a window [start, end] may be asked for
WindowInstants == 0..Val(datetime_max)

\* the sequence lists each of its instants once, in ascending order
Ascending(seq) == \A n \in 1..Len(seq) - 1 : seq[n] < seq[n + 1]

\* C19: for every window [start, end], _generate_time_series returns the
\* instants t with start <= t <= end that occur in any loaded series, each
\* once and in ascending order, also when an instant occurs in several
\* series; the sequence of a run is the one its loaded data yields.
C19_TimeSeriesIsSortedUnion ==
    /\ \A start \in WindowInstants, end \in WindowInstants :
          LET time_series == _generate_time_series(historical_data,
                                                   Some(start), Some(end))
          IN /\ Ascending(time_series)
             /\ {time_series[n] : n \in 1..Len(time_series)} =
                   {t \in LoadedInstants : start <= t /\ t <= end}
    /\ run.phase = "running" =>
          /\ Ascending(run.time_series)
          /\ run.time_series =
                _generate_time_series(historical_data, Some(run.time_series[1]),
                                      Some(run.time_series[Len(run.time_series)]))

\* two series are loaded, an instant occurs in both, and the run's sequence
\* lists it once
C19_Witness ==
    /\ run.phase = "running"
    /\ \E k1 \in DOMAIN historical_data, k2 \in DOMAIN historical_data :
          /\ k1 # k2
          /\ DOMAIN historical_data[k1] \cap DOMAIN historical_data[k2] # {}
    /\ run.time_series = <<0, 1, 2, 3>>


\* C20: advance_time moves the current time to the second element of the
\* sequence regenerated from the current instant forward and completes the
\* pending pass, the stop/target pass and the ledger recompute; when that
\* sequence has at most one element the current time, the book and the
\* ledger are unchanged.
C20_AdvanceTime ==
    [][last'.op = "advance_time" =>
          IF current_time # None /\
             Len(_generate_time_series(historical_data, current_time, datetime_max)) > 1
          THEN /\ current_time' =
                     Some(_generate_time_series(historical_data, current_time,
                                                datetime_max)[2])
               /\ last'.exc = "none"
               /\ (account_info["margin"] = SumMargin(open_positions))'
               /\ (account_info["equity"] =
                      account_info["balance"] + account_info["profit"])'
          ELSE UNCHANGED <<trades, pending_orders, open_positions, executed_trades,
                           account_info, current_time>>]_vars


----------------------------------------------------------------------------
(* Replays one after the other on the same broker: run_backtest runs to its *)
(* end without a client call in between, and between two runs the client    *)
(* submits orders that stay in the book of the broker.                      *)

\* the number of trades the client submits over all runs
MaxReplayTrades == 2

\* windows with bars, without bars (after the data, start later than end)
ReplayWindows ==
    {<<Some(0), Some(3)>>, <<Some(1), Some(2)>>, <<Some(4), Some(5)>>,
     <<Some(3), Some(0)>>}

\* what the client submits between two runs
ReplayInputs ==
    {Prepared("EURUSD", "BUY", "MARKET", Some(1), None, None, None),
     Prepared("EURUSD", "SELL", "STOP", Some(1), EntryLevel, None, None)}

ReplayBegin == RunBacktestBeginFrom(ReplayWindows)

SubmitBetweenRuns ==
    /\ run.phase = "idle"
    /\ ExecuteTradeFrom(ReplayInputs, MaxReplayTrades)

NextReplay ==
    \/ ReplayBegin
    \/ RunBacktestBar
    \/ RunBacktestEnd
    \/ SubmitBetweenRuns

SpecReplay == Init /\ [][NextReplay]_vars

\* the statistics of a run without closed trades
NoTradeStatistics == _calculate_backtest_statistics([Broker EXCEPT !.executed_trades = <<>>]).ret

\* C21: a run whose window yields no timestamp aborts: it ends by an error
\* or returns a result whose summary differs from that of a completed run
\* without trades.
C21_EmptyWindowAborts ==
    [][(last'.op = "run_backtest_end" /\ run.time_series = <<>>)
       => (\/ last'.exc # "none"
           \/ run'.results.trades # <<>>
           \/ run'.results.profit # 0
           \/ run'.results.statistics # NoTradeStatistics)]_vars


\* no loaded series of the symbol has a bar at or before the instant ct
NoPriceData(hd, ct, symbol) ==
    \A key \in DOMAIN hd :
        key[1] = symbol => \A b \in DOMAIN hd[key] : b > Val(ct)

\* C22: in a tick, an order or position of a symbol without a loaded bar at
\* or before the tick's time is left as it is: the order stays PENDING in
\* pending_orders, the position stays OPEN in open_positions; so an order
\* of a symbol that never has price data is never triggered.
C22_NoPriceNoMatching ==
    [][TickStep =>
          /\ \A n \in 1..Len(pending_orders) :
                NoPriceData(historical_data, current_time', trades[pending_orders[n]].symbol)
                => /\ trades'[pending_orders[n]].status = "PENDING"
                   /\ InSeq(pending_orders[n], pending_orders')
          /\ \A n \in 1..Len(open_positions) :
                NoPriceData(historical_data, current_time', trades[open_positions[n]].symbol)
                => /\ trades'[open_positions[n]].status = "OPEN"
                   /\ InSeq(open_positions[n], open_positions')
      ]_vars


----------------------------------------------------------------------------
(* The client modifies the trades it submitted: modify_trade *)

\* the number of trades the client submits
MaxModifyTrades == 2

\* the orders the client submits
ModifyInputs ==
    {Prepared("EURUSD", "BUY", "MARKET", Some(1), None, None, None),
     Prepared("EURUSD", "SELL", "STOP", Some(1), EntryLevel, None, None)}

\* the Trade objects modify_trade is called with: an id (missing, of a
\* submitted trade, or unknown) and new values, each given or left null
ModifyRequests ==
    {[Trade("EURUSD", "BUY", v[2], v[3]) EXCEPT !.id = id, !.entry_price = v[1]]
        : <<id, v>> \in {None, Some(1), Some(2), Some(3)}
                        \X {<<None, None, None>>,
                            <<None, Some(9980), None>>,
                            <<Some(10020), None, Some(10040)>>,
                            <<Some(10020), Some(9980), Some(10040)>>}}

SubmitForModify == ExecuteTradeFrom(ModifyInputs, MaxModifyTrades)

ModifyTrade ==
    /\ \E trade \in ModifyRequests :
          LET Return(B) ==
                  /\ Commit(B)
                  /\ last' = [op |-> "modify_trade", arg |-> trade, exc |-> B.exc]
          IN Return(modify_trade(Broker, trade))
    /\ is_connected' = TRUE
    /\ UNCHANGED <<current_time, historical_data, trade_id_counter, run, cache, mt5>>

\* the client starts the run before it submits its first trade
ModifyBegin ==
    /\ trades = <<>>
    /\ RunBacktestBegin

NextModify ==
    \/ SubmitForModify
    \/ ModifyTrade
    \/ ModifyBegin
    \/ RunBacktestBar

SpecModify == Init /\ [][NextModify]_vars

\* a value given to modify_trade replaces the old one, a null keeps it
Given(new, old) == IF new # None THEN new ELSE old

\* C23: modify_trade changes, of the live trade with the id, only the fields
\* given non-null - entry_price, stop_loss, take_profit of a pending order;
\* stop_loss, take_profit of an open position - and nothing else: no other
\* field or trade, no collection, not the ledger; an id found in neither
\* collection changes nothing and raises nothing.
C23_ModifyChangesOnlyGivenFields ==
    [][last'.op = "modify_trade" =>
          /\ last'.exc = "none"
          /\ UNCHANGED <<pending_orders, open_positions, executed_trades, account_info>>
          /\ DOMAIN trades' = DOMAIN trades
          /\ \A i \in 1..Len(trades) :
                IF trades[i].id = last'.arg.id /\ last'.arg.id # None
                   /\ InSeq(i, open_positions)
                THEN trades'[i] =
                        [trades[i] EXCEPT
                            !.stop_loss = Given(last'.arg.stop_loss, @),
                            !.take_profit = Given(last'.arg.take_profit, @)]
                ELSE IF trades[i].id = last'.arg.id /\ last'.arg.id # None
                        /\ InSeq(i, pending_orders)
                THEN trades'[i] =
                        [trades[i] EXCEPT
                            !.entry_price = Given(last'.arg.entry_price, @),
                            !.stop_loss = Given(last'.arg.stop_loss, @),
                            !.take_profit = Given(last'.arg.take_profit, @)]
                ELSE trades'[i] = trades[i]
      ]_vars

\* an open position whose stop_loss was replaced by the last modify_trade
\* while its take_profit, not given, was kept, with a pending order in the book
C23_Witness ==
    /\ last.op = "modify_trade"
    /\ last.arg.stop_loss # None
    /\ last.arg.take_profit = None
    /\ pending_orders # <<>>
    /\ \E n \in 1..Len(open_positions) :
          /\ trades[open_positions[n]].id = last.arg.id
          /\ trades[open_positions[n]].stop_loss = last.arg.stop_loss
          /\ trades[open_positions[n]].take_profit # None
          /\ trades[open_positions[n]].status = "OPEN"


----------------------------------------------------------------------------
(* Properties of closing and of profit *)

\* profit as the specification states it for a position and a closing quote
StatedProfit(position, close_quote) ==
    LET diff == IF position.direction = "BUY"
                THEN close_quote - Val(position.executed_price)
                ELSE Val(position.executed_price) - close_quote
    IN (diff \div symbol_configs[position.symbol].pip_value) * Val(position.size)
          * symbol_configs[position.symbol].contract_size
       - position.commission - position.swap

\* the quote of the symbol when the step begins
CurrentQuote(symbol) == get_current_price(historical_data, current_time, symbol)

\* C24: close_trade on an open position with a current price closes it at
\* the bid (BUY) or ask (SELL) with close_reason MANUAL, moves it from
\* open_positions to the history, adds its realized profit to balance once
\* and recomputes the ledger; without a current price the position stays
\* OPEN and book and balance are unchanged.
C24_CloseTradeClosesAtQuote ==
    [][(last'.op = "close_trade" /\ InSeq(last'.arg, open_positions)) =>
          IF IsEmpty(CurrentQuote(trades[last'.arg].symbol))
          THEN /\ trades'[last'.arg].status = "OPEN"
               /\ UNCHANGED <<pending_orders, open_positions, executed_trades>>
               /\ account_info'["balance"] = account_info["balance"]
          ELSE /\ last'.exc = "none"
               /\ trades'[last'.arg].status = "CLOSED"
               /\ trades'[last'.arg].close_reason = "MANUAL"
               /\ trades'[last'.arg].close_price =
                     MarkPrice(trades[last'.arg],
                               CurrentQuote(trades[last'.arg].symbol))
               /\ ~InSeq(last'.arg, open_positions')
               /\ executed_trades' = Append(executed_trades, last'.arg)
               /\ account_info'["balance"] =
                     account_info["balance"]
                     + StatedProfit(trades[last'.arg],
                                    Val(MarkPrice(trades[last'.arg],
                                                  CurrentQuote(trades[last'.arg].symbol))))
               /\ account_info'["equity"] =
                     account_info'["balance"] + account_info'["profit"]
      ]_vars

\* C27: the profit of a position marked to market by a tick is the stated
\* formula at the bid (BUY) or ask (SELL) of the tick, and the profit of a
\* closed trade is the stated formula at its close price.
C27_ProfitFormula ==
    [][/\ TickStep =>
             \A n \in 1..Len(open_positions') :
                LET position == trades'[open_positions'[n]]
                    quote == get_current_price(historical_data, current_time',
                                               position.symbol)
                IN ~IsEmpty(quote) =>
                      Trade_profit(position) =
                         StatedProfit(position, Val(MarkPrice(position, quote)))
       /\ \A i \in 1..Len(trades') :
             trades'[i].status = "CLOSED" =>
                Trade_profit(trades'[i]) =
                   StatedProfit(trades'[i], Val(trades'[i].close_price))
      ]_vars


----------------------------------------------------------------------------
(* _calculate_backtest_statistics on its own: the broker holds a history of *)
(* closed trades and the statistics are computed from it.                   *)

\* the longest history
MaxHistory == 3

\* the profits of the closed trades of a history
HistoryProfits == {-800, -300, 0, 200, 500}

\* the k-th trade of a history: closed at time k with the profit
ClosedTrade(k, profit) ==
    [Trade("EURUSD", "BUY", None, None) EXCEPT
        !.id = Some(k), !.size = Some(1), !.status = "CLOSED",
        !.executed_price = Some(10000), !.open_time = Some(0),
        !.close_price = Some(10000 + profit), !.close_time = Some(k),
        !.close_reason = "MANUAL", !.profit = Some(profit)]

\* the histories: every sequence of 1..MaxHistory profits
Histories ==
    UNION {[1..n -> HistoryProfits] : n \in 1..MaxHistory}

InitStats ==
    /\ \E h \in Histories :
          /\ trades = [k \in 1..Len(h) |-> ClosedTrade(k, h[k])]
          /\ executed_trades = [k \in 1..Len(h) |-> k]
          /\ trade_id_counter = Len(h) + 1
    /\ pending_orders = <<>>
    /\ open_positions = <<>>
    /\ account_info = InitialAccountInfo
    /\ current_time = Some(Max(FeedTimes))
    /\ historical_data = EmptyDict
    /\ is_connected = TRUE
    /\ run = Idle
    /\ cache = None
    /\ mt5 = NoTerminal
    /\ last = [op |-> "init", arg |-> 0, exc |-> "none", ret |-> EmptyDict]

\* the statistics of the history are computed
CalculateBacktestStatistics ==
    /\ last.op = "init"
    /\ LET Return(st) ==
               last' = [op |-> "_calculate_backtest_statistics", arg |-> 0,
                        exc |-> st.exc, ret |-> st.ret]
       IN Return(_calculate_backtest_statistics(Broker))
    /\ UNCHANGED <<trades, pending_orders, open_positions, executed_trades,
                   account_info, current_time, historical_data, trade_id_counter,
                   is_connected, run, cache, mt5>>

NextStats == CalculateBacktestStatistics

SpecStats == InitStats /\ [][NextStats]_vars

\* the profits of the history, in close-time order
ProfitsOf(ts, seq) == [n \in 1..Len(seq) |-> Trade_profit(ts[seq[n]])]

RECURSIVE SumOver(_, _)
\* the sum of f over the finite set S
SumOver(f, S) ==
    IF S = {} THEN 0
    ELSE LET x == CHOOSE x \in S : TRUE IN f[x] + SumOver(f, S \ {x})

\* the absolute value
Abs(x) == IF x < 0 THEN -x ELSE x

\* C25: for a non-empty history the statistics count a trade as a win iff
\* its profit > 0 and as a loss otherwise, winning_trades + losing_trades =
\* total_trades, win_rate = winning_trades / total_trades, profit_factor =
\* total_profit / total_loss when total_loss > 0 and 0 when it is 0
\* (a quotient a / b is compared as a * 1 = quotient * b).
C25_WinLossStatistics ==
    (last.op = "_calculate_backtest_statistics" /\ executed_trades # <<>>) =>
       LET profits == ProfitsOf(trades, executed_trades)
           wins == {n \in DOMAIN profits : profits[n] > 0}
           losses == DOMAIN profits \ wins
           total_profit == SumOver(profits, wins)
           total_loss == SumOver([n \in DOMAIN profits |-> Abs(profits[n])], losses)
       IN /\ last.exc = "none"
          /\ last.ret.total_trades = Len(profits)
          /\ last.ret.winning_trades = Cardinality(wins)
          /\ last.ret.losing_trades = Cardinality(losses)
          /\ last.ret.winning_trades + last.ret.losing_trades = last.ret.total_trades
          /\ last.ret.win_rate * Len(profits) = Cardinality(wins)
          /\ IF total_loss > 0
             THEN last.ret.profit_factor * total_loss = total_profit
             ELSE last.ret.profit_factor = 0

RECURSIVE StatedDrawdown(_, _, _, _)
\* the walk the specification states: running balance and running peak from
\* the initial deposit on, the largest peak - balance with the peak it was
\* measured from
StatedDrawdown(profits, balance, peak, worst) ==
    IF profits = <<>> THEN worst
    ELSE LET b == balance + Head(profits)
             p == Max({peak, b})
         IN StatedDrawdown(Tail(profits), b, p,
                           IF p - b > worst.drawdown
                           THEN [drawdown |-> p - b, peak |-> p] ELSE worst)

\* C26: for a non-empty history the statistics report as max_drawdown the
\* largest peak - balance seen at a trade closure when the closed trades are
\* walked in close-time order with a running balance that starts at the
\* initial deposit, and as percentage that drawdown over the peak of the same
\* point (initial balance 10000 and profits +500, -800, +200: 800 and
\* 800 / 10500).
C26_MaxDrawdown ==
    (last.op = "_calculate_backtest_statistics" /\ executed_trades # <<>>) =>
       LET worst == StatedDrawdown(ProfitsOf(trades, executed_trades),
                                   InitialAccountInfo.balance,
                                   InitialAccountInfo.balance,
                                   [drawdown |-> 0, peak |-> InitialAccountInfo.balance])
       IN /\ last.exc = "none"
          /\ last.ret.max_drawdown = worst.drawdown
          /\ last.ret.max_drawdown_percentage * worst.peak = worst.drawdown * 100


----------------------------------------------------------------------------
(* Properties of replays on the same broker *)

\* a broker as __init__ leaves it
FreshBroker ==
    [trades |-> <<>>, pending_orders |-> <<>>, open_positions |-> <<>>,
     executed_trades |-> <<>>, account_info |-> InitialAccountInfo, exc |-> "none"]

RECURSIVE FreshCurve(_, _, _, _)
\* the equity curve of a run over time_series that begins with the broker B
FreshCurve(B, hd, time_series, k) ==
    IF k > Len(time_series) THEN <<>>
    ELSE LET Sample(B1) ==
                 <<[time |-> Some(time_series[k]),
                    equity |-> B1.account_info["equity"],
                    balance |-> B1.account_info["balance"]]>>
                 \o FreshCurve(B1, hd, time_series, k + 1)
         IN Sample(Tick(B, hd, Some(time_series[k])))

\* the result of run_backtest on a fresh broker for the loaded data
FreshResults(hd, time_series) ==
    [initial_balance |-> InitialAccountInfo.balance,
     final_balance |-> InitialAccountInfo.balance,
     profit |-> 0,
     trades |-> <<>>,
     equity_curve |-> FreshCurve(FreshBroker, hd, time_series, 1),
     statistics |-> _calculate_backtest_statistics(FreshBroker).ret]

\* C28: every run_backtest on a broker, whatever earlier runs and client
\* calls left in its book, ledger, counter and clock, runs to its end and
\* returns the result a fresh broker returns for the same loaded data and
\* window, and leaves the id counter where a fresh run leaves it.
C28_ReplayIsDeterministic ==
    /\ last.op \in {"run_backtest_bar", "run_backtest_end"} => last.exc = "none"
    /\ last.op = "run_backtest_end" =>
          /\ run.results = FreshResults(historical_data, run.time_series)
          /\ trade_id_counter = 1
          /\ executed_trades = <<>>

\* a run completed on a broker in which, before the run began, the client
\* had opened a position and left a pending order
C28_Witness ==
    /\ last.op = "run_backtest_end"
    /\ run.results.equity_curve # <<>>
    /\ \E i \in 1..Len(trades) : trades[i].status = "OPEN"
    /\ \E i \in 1..Len(trades) : trades[i].status = "PENDING"
    /\ open_positions = <<>>
    /\ pending_orders = <<>>


----------------------------------------------------------------------------
(* Properties of the passes of a tick over the live collections *)

\* how often x occurs in seq
Count(x, seq) == Cardinality({n \in 1..Len(seq) : seq[n] = x})

\* C30: in a tick every order with an entry price that is in pending_orders
\* when the pending pass begins is evaluated once, whatever happens to the
\* other entries: if the trigger rule holds at the tick's quote it is in
\* open_positions once and no longer pending, otherwise it is in
\* pending_orders once; and every position in open_positions when the
\* stop/target pass begins is evaluated once: it is marked to market and
\* is either still in open_positions once or in the history once.
C30_EveryEntryEvaluatedOnce ==
    [][TickStep =>
          /\ \A n \in 1..Len(pending_orders) :
                LET i == pending_orders[n]
                    quote == get_current_price(historical_data, current_time',
                                               trades[i].symbol)
                IN (trades[i].entry_price # None /\ ~IsEmpty(quote)) =>
                      IF StatedTrigger(trades[i], quote)
                      THEN /\ Count(i, pending_orders') = 0
                           /\ Count(i, open_positions') + Count(i, executed_trades') = 1
                      ELSE /\ Count(i, pending_orders') = 1
                           /\ Count(i, open_positions') = 0
          /\ \A i \in 1..Len(trades) :
                (/\ InSeq(i, open_positions) \/ InSeq(i, open_positions')
                 /\ ~IsEmpty(get_current_price(historical_data, current_time',
                                               trades[i].symbol)))
                => /\ trades'[i].profit # None
                   /\ Count(i, open_positions') + Count(i, executed_trades') = 1
      ]_vars


----------------------------------------------------------------------------
(* The data feed against a terminal that can lose its history: a terminal   *)
(* that is not reachable answers copy_rates_range with None, which          *)
(* _fetch_mt5_data turns into an empty frame like an empty answer.          *)

\* the windows asked for; the terminal never holds a bar in [12, 13]
OutageWindows == {0, 5, 12} \X {10, 13, 20}

\* a client calls fetch_historical_data with one of the windows
FetchDuringOutage ==
    /\ \E window \in OutageWindows :
          LET Return(r) ==
                  /\ cache' = r.cache
                  /\ last' = [op |-> "fetch_historical_data", arg |-> window,
                              exc |-> "none", ret |-> r.ret,
                              requests |-> r.requests]
          IN Return(fetch_historical_data(cache, mt5, window[1], window[2]))
    /\ UNCHANGED mt5
    /\ BrokerIdle

\* the terminal becomes unreachable: every request is answered with nothing
TerminalOutage ==
    /\ mt5.updates < MaxFeedUpdates
    /\ DOMAIN mt5.bars # {}
    /\ mt5' = [bars |-> <<>>, updates |-> mt5.updates + 1]
    /\ last' = [op |-> "terminal_outage", arg |-> <<0, 0>>, exc |-> "none",
                ret |-> EmptyFrame, requests |-> <<>>]
    /\ UNCHANGED cache
    /\ BrokerIdle

NextOutage == FetchDuringOutage \/ TerminalOutage \/ TerminalUpdate

SpecOutage == InitFeed /\ [][NextOutage]_vars

\* the step is a fetch whose request to the terminal came back empty
EmptyFeedStep ==
    /\ last'.op = "fetch_historical_data"
    /\ last'.requests # <<>>
    /\ _fetch_mt5_data(mt5, last'.requests[1][1], last'.requests[1][2]).rows = <<>>

\* the rows of the cache file within [start_date, end_date]
StoredSlice(file, start_date, end_date) ==
    LET InWindow(r) == start_date <= r[1] /\ r[1] <= end_date
    IN SelectSeq(Val(file).rows, InWindow)

\* C31: when the terminal's answer is empty or missing, a fetch without a
\* cache file returns an empty frame, raises nothing and creates no file; a
\* fetch with a cache file returns the rows of the file within the window and
\* leaves the file as it was.
C31_EmptyFeedFallsBackToCache ==
    [][EmptyFeedStep =>
          /\ last'.exc = "none"
          /\ cache' = cache
          /\ last'.ret.rows = IF cache = None THEN <<>>
                              ELSE StoredSlice(cache, last'.arg[1], last'.arg[2])
      ]_vars


----------------------------------------------------------------------------
(* Properties of Trade.set_entry_parameters *)

\* the step is a call set_entry_parameters(LIMIT or STOP, None): a call with
\* an entry price returns and leaves that price in the trade
EntryPriceMissingStep ==
    /\ last'.op = "set_entry_parameters"
    /\ last'.arg \in {"LIMIT", "STOP"}
    /\ last'.exc # "none" \/ trades'[1].entry_price = None

\* C32: set_entry_parameters for a LIMIT or STOP order without an entry price
\* raises an error and leaves order_type and entry_price of the trade as they
\* were before the call.
C32_MissingEntryPriceLeavesTrade ==
    [][EntryPriceMissingStep =>
          /\ last'.exc # "none"
          /\ trades'[1].order_type = trades[1].order_type
          /\ trades'[1].entry_price = trades[1].entry_price
      ]_vars


----------------------------------------------------------------------------
(* The book under every client operation: submit, modify, close and tick *)

\* the orders the client submits; the last one has no valid size
PartitionInputs ==
    ModifyInputs \cup {Prepared("EURUSD", "BUY", "LIMIT", Some(0), EntryLevel, None, None)}

SubmitForPartition == ExecuteTradeFrom(PartitionInputs, MaxModifyTrades)

\* the modify_trade requests that name a submitted trade and give a stop loss
PartitionRequests ==
    {trade \in ModifyRequests : trade.id \in {Some(1), Some(2)} /\ trade.stop_loss # None}

\* the client modifies a trade it submitted: modify_trade
ModifyInBook ==
    /\ \E trade \in PartitionRequests :
          LET Return(B) ==
                  /\ Commit(B)
                  /\ last' = [op |-> "modify_trade", arg |-> trade, exc |-> B.exc]
          IN Return(modify_trade(Broker, trade))
    /\ is_connected' = TRUE
    /\ UNCHANGED <<current_time, historical_data, trade_id_counter, run, cache, mt5>>

NextPartition ==
    \/ SubmitForPartition
    \/ ModifyInBook
    \/ CloseTrade
    \/ ModifyBegin
    \/ RunBacktestBar

SpecPartition == Init /\ [][NextPartition]_vars

\* how often the trade i is referenced by the three collections together
Listed(i) ==
    Count(i, pending_orders) + Count(i, open_positions) + Count(i, executed_trades)

\* C33: in every state, hence after every submit, modify, close and tick,
\* every trade in pending_orders is PENDING, every trade in open_positions is
\* OPEN and every trade in executed_trades is CLOSED; no trade is in two of
\* the collections or twice in one; a CANCELLED or REJECTED trade is in none.
C33_BookPartition ==
    /\ \A n \in 1..Len(pending_orders) : trades[pending_orders[n]].status = "PENDING"
    /\ \A n \in 1..Len(open_positions) : trades[open_positions[n]].status = "OPEN"
    /\ \A n \in 1..Len(executed_trades) : trades[executed_trades[n]].status = "CLOSED"
    /\ \A i \in 1..Len(trades) :
          /\ Listed(i) <= 1
          /\ trades[i].status \in {"CANCELLED", "REJECTED"} => Listed(i) = 0

\* a close_trade call returned after it cancelled the first order, while the
\* second order is still pending
C33_Witness ==
    /\ last.op = "close_trade"
    /\ last.exc = "none"
    /\ last.arg = 1
    /\ Len(trades) = 2
    /\ trades[1].status = "CANCELLED"
    /\ Listed(1) = 0
    /\ trades[2].status = "PENDING"
    /\ pending_orders = <<2>>


----------------------------------------------------------------------------
(* A replay stepped by its driver: run_backtest has loaded the data and set *)
(* the clock to the configured start of the window, and the driver advances *)
(* the clock bar by bar with advance_time.                                  *)

\* the windows of the replay; the first one starts before the first bar
ClockWindows == {<<Some(-1), Some(3)>>, <<Some(0), Some(3)>>, <<Some(1), Some(2)>>}

ClockBegin == RunBacktestBeginFrom(ClockWindows)

ClockSubmit == ExecuteTradeFrom(ReplayInputs, MaxReplayTrades)

ClockAdvance == AdvanceTimeIn({"idle", "running"})

NextClock ==
    \/ ClockBegin
    \/ ClockSubmit
    \/ ClockAdvance

SpecClock == Init /\ [][NextClock]_vars

\* the loaded instants later than the current time
LaterInstants == {t \in LoadedInstants : t > Val(current_time)}

\* C34: an advance_time call that moves the clock and returns moves it to the
\* smallest loaded instant later than the current time, also when the current
\* time is not a loaded instant; no advance_time call moves the clock back.
C34_AdvanceToNextLoadedInstant ==
    [][last'.op = "advance_time" =>
          /\ (last'.arg = 1 /\ last'.exc = "none")
                => current_time' = Some(Min(LaterInstants))
          /\ current_time # None => Val(current_time') >= Val(current_time)
      ]_vars


----------------------------------------------------------------------------
(* Queries during a replay: a strategy asks the broker for the history and  *)
(* the quote of a symbol while the run is at its current time.              *)

QueryBegin == RunBacktestBeginFrom(ReplayWindows)

\* a client calls get_historical_data(symbol, timeframe, bars_count)
GetHistoricalData ==
    /\ \E symbol \in Symbols, timeframe \in RunTimeframes, bars_count \in {1, 1000} :
          last' = [op |-> "get_historical_data",
                   arg |-> <<symbol, timeframe, bars_count>>,
                   exc |-> "none",
                   ret |-> get_historical_data(historical_data, current_time,
                                               symbol, timeframe, bars_count)]
    /\ UNCHANGED <<trades, pending_orders, open_positions, executed_trades,
                   account_info, current_time, historical_data, trade_id_counter,
                   is_connected, run, cache, mt5>>

\* a client calls get_current_price(symbol), which connects the broker
GetCurrentPrice ==
    /\ \E symbol \in Symbols :
          last' = [op |-> "get_current_price", arg |-> <<symbol, "None">>,
                   exc |-> "none",
                   ret |-> get_current_price(historical_data, current_time, symbol)]
    /\ is_connected' = TRUE
    /\ UNCHANGED <<trades, pending_orders, open_positions, executed_trades,
                   account_info, current_time, historical_data, trade_id_counter,
                   run, cache, mt5>>

NextQuery ==
    \/ QueryBegin
    \/ RunBacktestBar
    \/ RunBacktestEnd
    \/ GetHistoricalData
    \/ GetCurrentPrice

SpecQuery == Init /\ [][NextQuery]_vars

\* the quote is the close of a loaded bar of the symbol at or before ct,
\* widened by the spread
QuoteOfBarUpTo(quote, hd, ct, symbol) ==
    \E key \in DOMAIN hd :
       /\ key[1] = symbol
       /\ \E b \in DOMAIN hd[key] :
             /\ b <= Val(ct)
             /\ quote.bid + quote.spread \div 2 = hd[key][b]

\* C35: while the replay is at time t, get_historical_data returns only bars
\* with a timestamp at or before t, and get_current_price returns a quote of
\* a loaded bar at or before t; when the symbol has no such bar, the history
\* returned is empty and there is no quote.
C35_NoLookAhead ==
    current_time # None =>
       /\ last.op = "get_historical_data" =>
             \A b \in DOMAIN last.ret : b <= Val(current_time)
       /\ last.op = "get_current_price" =>
             \/ IsEmpty(last.ret)
             \/ QuoteOfBarUpTo(last.ret, historical_data, current_time, last.arg[1])


----------------------------------------------------------------------------
(* The ledger at the end of a run *)

\* the ledger of a broker without open positions
LedgerOfEmptyBook(info) ==
    /\ info["equity"] = info["balance"]
    /\ info["profit"] = 0
    /\ info["margin"] = 0
    /\ info["free_margin"] = info["balance"]

\* C36: run_backtest returns with an empty book, also when positions were
\* open after the last bar and had to be closed, and then equity = balance,
\* profit = 0, margin = 0, free_margin = balance and balance is the
\* final_balance of the result.
C36_LedgerAfterRun ==
    [][last'.op = "run_backtest_end" =>
          /\ last'.exc = "none"
          /\ pending_orders' = <<>> /\ open_positions' = <<>>
          /\ LedgerOfEmptyBook(account_info')
          /\ account_info'["balance"] = run'.results.final_balance
      ]_vars


----------------------------------------------------------------------------
(* A position whose stop and target are both reached *)

\* C37: in the stop/target pass of a tick, an open position for which both
\* the stop rule and the target rule hold is closed once, at its stop_loss
\* level with reason STOP_LOSS: it leaves open_positions and is in the
\* history once.
C37_StopLossBeforeTakeProfit ==
    [][TickStep =>
          \A n \in 1..Len(StopTargetPassPositions) :
             LET i == StopTargetPassPositions[n]
                 p == trades[i]
                 quote == get_current_price(historical_data, current_time', p.symbol)
             IN (/\ ~IsEmpty(quote)
                 /\ StatedStopLoss(p, quote)
                 /\ StatedTakeProfit(p, quote))
                => /\ trades'[i].status = "CLOSED"
                   /\ trades'[i].close_reason = "STOP_LOSS"
                   /\ trades'[i].close_price = p.stop_loss
                   /\ Count(i, open_positions') = 0
                   /\ Count(i, executed_trades') = 1
      ]_vars


----------------------------------------------------------------------------
(* Cancelling a pending order *)

\* C38: close_trade called with the id of a pending order removes the order
\* from pending_orders and makes it CANCELLED without changing balance; a
\* CANCELLED order stays CANCELLED in every later step, is never in the
\* closed-trade history and is never filled.
C38_CloseTradeCancelsPending ==
    [][/\ (last'.op = "close_trade" /\ InSeq(last'.arg, pending_orders)) =>
             /\ trades'[last'.arg].status = "CANCELLED"
             /\ Count(last'.arg, pending_orders') = 0
             /\ Count(last'.arg, open_positions') = 0
             /\ Count(last'.arg, executed_trades') = 0
             /\ account_info'["balance"] = account_info["balance"]
       /\ \A i \in 1..Len(trades) :
             trades[i].status = "CANCELLED" =>
                /\ trades'[i].status = "CANCELLED"
                /\ trades'[i].executed_price = None
                /\ Count(i, pending_orders') = 0
                /\ Count(i, open_positions') = 0
                /\ Count(i, executed_trades') = 0
      ]_vars

\* a tick has passed whose quote reaches the entry price of an order that
\* was cancelled before: the order is still CANCELLED and in no collection
C38_Witness ==
    /\ last.op = "run_backtest_bar"
    /\ last.exc = "none"
    /\ Len(trades) >= 1
    /\ trades[1].status = "CANCELLED"
    /\ trades[1].order_type = "STOP"
    /\ StatedTrigger(trades[1], CurrentQuote(trades[1].symbol))
    /\ Listed(1) = 0
    /\ account_info["balance"] = InitialAccountInfo["balance"]


----------------------------------------------------------------------------
(* The cache against the terminal *)

\* C39: as long as the terminal's history has not changed, every fetch
\* returns exactly the bars the terminal holds within the requested window,
\* whatever windows were fetched before.
C39_CacheIsTransparent ==
    (last.op = "fetch_historical_data" /\ mt5.updates = 0) =>
       last.ret.rows = copy_rates_range(mt5, last.arg[1], last.arg[2])


----------------------------------------------------------------------------
(* The initial deposit as a peak of the drawdown walk *)

RECURSIVE RunningBalance(_, _, _)
\* the balance after the first n closures of the history
RunningBalance(profits, n, deposit) ==
    IF n = 0 THEN deposit
    ELSE RunningBalance(profits, n - 1, deposit) + profits[n]

\* C40: whenever the running balance after a closure of the history is below
\* the initial deposit, the statistics report a max_drawdown of at least
\* initial deposit - running balance; so a history whose first trade loses L
\* reports max_drawdown >= L.
C40_DepositIsAPeak ==
    (last.op = "_calculate_backtest_statistics" /\ executed_trades # <<>>) =>
       LET profits == ProfitsOf(trades, executed_trades)
           deposit == InitialAccountInfo["balance"]
       IN \A n \in 1..Len(profits) :
             RunningBalance(profits, n, deposit) < deposit =>
                /\ last.exc = "none"
                /\ last.ret.max_drawdown >= deposit - RunningBalance(profits, n, deposit)

====
